---------------------------- MODULE Spec2Model ----------------------------
(***************************************************************************)
(* N0rth-Star: the ingestion gate (backend/app/pipeline_store.py) and the  *)
(* detection-and-scoring pipeline (ml/pipeline.py).                        *)
(*                                                                         *)
(* Numbers.  Python floats are modelled as fixed-point integers:           *)
(*   - a confidence c is held in hundredths (0.45 is 45);                  *)
(*   - a score is held in thousandths of a point (3.0 is 3000);            *)
(*   - a CVSS value is held in tenths (9.8 is 98).                         *)
(* Strings that are concatenated or trimmed are sequences of one-character *)
(* strings; labels that are only compared are TLA+ strings.                *)
(***************************************************************************)
EXTENDS Integers, Sequences, FiniteSets, TLC

VARIABLES
    posts,      \* table Post    : set of rows
    alerts,     \* table Alert   : set of rows
    findings,   \* table Finding : set of rows
    entities,   \* table Entity  : set of rows
    pc,         \* per worker: position inside upsert_post_and_alert
    args,       \* per worker: the arguments of the call in progress
    local,      \* per worker: h, existing, post of the call in progress
    result,     \* per worker: what the last call returned or raised
    ran,        \* per worker: did the call in progress run build_alert
    calls,      \* number of calls started so far
    inp,        \* pipeline run: what the classifiers and extractors produced
    alert,      \* pipeline run: the alert build_alert returned, then that of a rerun
    apc,        \* pipeline run: "ready" before build_alert, "built" after, "twice"
    wrap,       \* classifier call: the model bundle and what its methods answer
    prediction, \* classifier call: what the classifier interface returned
    cpc,        \* classifier call: "ready" before the call, "done" after
    secret,     \* detector call: a text with one match, or with several
    detected,   \* detector call: the finding, or the list of findings, returned
    dpc,        \* detector call: "ready" or "scan" before, "done" or "scanned" after
    artifact,   \* server process: the classifier bundle on disk, or none
    models,     \* server process: the NorthStarModels object in use, or none
    loads,      \* server process: how many times the bundle was loaded
    stored,     \* server process: how many posts were committed
    served,     \* server process: how many ingest calls were started
    spc,        \* server process: position inside the ingest call in progress
    items,      \* ingestion run: the items the source or the demo feed holds
    todo,       \* ingestion run: the items the loop has not reached yet
    feed_kind,  \* ingestion run: "collect" for collect_run, "demo" for ingest_demo_feed_once
    inserted_posts,\* ingestion run: the counter of the same name
    created_alerts,\* ingestion run: the counter of the same name
    base,       \* ingestion run: the numbers of Post and Alert rows when the run began
    rpc,        \* ingestion run: position inside the run
    retries,    \* fetch: the argument of the same name
    attempt,    \* fetch: the loop index i of _http_get
    last_err,   \* fetch: the local of the same name
    events,     \* fetch: the requests made and the sleeps taken, in order
    outcome,    \* fetch: what the call gave back, or None while it runs
    hpc,        \* fetch: position inside the call
    db_kind,    \* alert stream: the kind of database DB_URL names
    next_id,    \* alert stream: the id the next inserted Alert row gets
    pending,    \* alert stream: ids of Alert rows inserted and not yet committed
    visible,    \* alert stream: ids of the committed Alert rows
    last_id,    \* alert stream: the cursor of the same name
    emitted,    \* alert stream: ids of the alert events sent on the connection, in order
    stpc,       \* alert stream: position of the connection
    left_call,  \* dedup key: source, url and text of one ingest
    right_call, \* dedup key: source, url and text of another ingest
    hashes,     \* dedup key: the hashes of the two, or None before they are taken
    kpc         \* dedup key: position

gateVars     == <<posts, alerts, findings, entities, pc, args, local, result, ran, calls>>
alertVars    == <<inp, alert, apc>>
classifyVars == <<wrap, prediction, cpc>>
detectVars   == <<secret, detected, dpc>>
serveVars    == <<artifact, models, loads, stored, served, spc>>
runVars      == <<items, todo, feed_kind, inserted_posts, created_alerts, base, rpc>>
httpVars     == <<retries, attempt, last_err, events, outcome, hpc>>
streamVars   == <<db_kind, next_id, pending, visible, last_id, emitted, stpc>>
hashVars     == <<left_call, right_call, hashes, kpc>>
vars      == <<posts, alerts, findings, entities, pc, args, local, result,
               ran, calls, inp, alert, apc, wrap, prediction, cpc, secret,
               detected, dpc, artifact, models, loads, stored, served, spc,
               items, todo, feed_kind, inserted_posts, created_alerts, base,
               rpc, retries, attempt, last_err, events, outcome, hpc,
               db_kind, next_id, pending, visible, last_id, emitted, stpc,
               left_call, right_call, hashes, kpc>>

-----------------------------------------------------------------------------
(* Helpers on numbers and sequences *)

Min2(a, b) == IF a <= b THEN a ELSE b
Max2(a, b) == IF a >= b THEN a ELSE b

RECURSIVE SumSeq(_)
SumSeq(s) == IF s = <<>> THEN 0 ELSE Head(s) + SumSeq(Tail(s))

MaxOfSet(S) == CHOOSE m \in S : \A x \in S : x <= m

Some(x) == <<x>>
None    == <<>>

\* f"{x:.1f}" of a score held in thousandths: the value in tenths, rounded to
\* the nearest tenth, a tie going to the even tenth.
Fmt1(m) ==
    LET a  == IF m < 0 THEN -m ELSE m
        q  == a \div 100
        r  == a % 100
        t  == IF r > 50 \/ (r = 50 /\ q % 2 = 1) THEN q + 1 ELSE q
    IN  IF m < 0 THEN -t ELSE t

-----------------------------------------------------------------------------
(* ml/pipeline.py: the weight tables *)

FindingTypes ==
    {"PRIVATE_KEY_BLOCK", "CONNECTION_STRING", "AWS_ACCESS_KEY_ID",
     "GITHUB_TOKEN", "JWT", "AUTH_HEADER", "PASSWORD_ASSIGNMENT"}

SEVERITY_WEIGHTS ==
    [t \in FindingTypes |->
        CASE t = "PRIVATE_KEY_BLOCK"   -> 45
          [] t = "CONNECTION_STRING"   -> 30
          [] t = "AWS_ACCESS_KEY_ID"   -> 26
          [] t = "GITHUB_TOKEN"        -> 26
          [] t = "JWT"                 -> 20
          [] t = "AUTH_HEADER"         -> 20
          [] t = "PASSWORD_ASSIGNMENT" -> 16]

SectorNames ==
    {"power_grid", "telecom", "banking", "upi", "airport", "ports",
     "railways", "oil", "other"}

SECTOR_IMPACT ==
    [s \in SectorNames |->
        CASE s = "power_grid" -> 22
          [] s = "telecom"    -> 20
          [] s = "banking"    -> 20
          [] s = "upi"        -> 20
          [] s = "airport"    -> 16
          [] s = "ports"      -> 16
          [] s = "railways"   -> 15
          [] s = "oil"        -> 15
          [] s = "other"      -> 8]

IntentNames == {"planning", "claim", "leak", "discussion", "irrelevant"}

INTENT_BOOST ==
    [l \in IntentNames |->
        CASE l = "planning"   -> 14
          [] l = "claim"      -> 12
          [] l = "leak"       -> 14
          [] l = "discussion" -> 6
          [] l = "irrelevant" -> 0]

\* dict.get(key, default)
SeverityWeight(t) == IF t \in FindingTypes THEN SEVERITY_WEIGHTS[t] ELSE 12
SectorWeight(s)   == IF s \in SectorNames THEN SECTOR_IMPACT[s] ELSE 8
IntentWeight(l)   == IF l \in IntentNames THEN INTENT_BOOST[l] ELSE 0

\* clamp(x, 0.0, 100.0) on thousandths of a point
\* (mutation: the bounds forgotten)
clampMutNoClamp(x) == x
clamp(x) == Max2(0, Min2(100000, x))


-----------------------------------------------------------------------------
(* ml/pipeline.py: score_threat *)

\* max(findings, key=lambda f: f.confidence): the first finding of greatest
\* confidence, in list order.
\* (mutation: the last finding instead of the strongest)
TopFindingMutLast(fs) == fs[Len(fs)]
TopFinding(fs) ==
    LET m == MaxOfSet({fs[i].confidence : i \in 1..Len(fs)})
        k == CHOOSE i \in 1..Len(fs) :
                 /\ fs[i].confidence = m
                 /\ \A j \in 1..(i-1) : fs[j].confidence < m
    IN  fs[k]

\* One applied contribution: what it is, the label and detail its reason
\* cites, and its amount in thousandths of a point.
Contribution(kind, label, detail, pts) ==
    [kind |-> kind, label |-> label, detail |-> detail, pts |-> pts]

\* lines 107-115: leak severity and credibility of the top finding
LeakContributions(fs) ==
    IF fs = <<>> THEN <<>>
    ELSE LET top == TopFinding(fs)
             w   == SeverityWeight(top.type)
         IN  << Contribution("Leak signal", top.type, 0, w * 1000),
                Contribution("Evidence confidence", "", 0, 250 * top.confidence) >>

\* lines 118-121
IntentContribution(intent_label, intent_conf) ==
    << Contribution("Intent", intent_label, 0,
                    IntentWeight(intent_label) * intent_conf * 10) >>

\* lines 124-127
SectorContribution(sector_label, sector_conf) ==
    << Contribution("Sector impact", sector_label, 0,
                    SectorWeight(sector_label) * sector_conf * 10) >>

\* lines 130-134: vuln_risk is None or a dict with a score
VulnContribution(vuln_risk) ==
    IF vuln_risk = None THEN <<>>
    ELSE << Contribution("Vulnerability risk", "", 0,
                         Min2(30000, vuln_risk[1].score * 300)) >>

\* lines 137-144
KeywordContributions(security_like, attack_kw_hits) ==
    (IF security_like
        THEN << Contribution("Security keywords present", "", 0, 6000) >>
        ELSE <<>>)
    \o
    (IF attack_kw_hits >= 2
        THEN << Contribution("Attack keyword density", "", 0,
                             Min2(12000, 4000 * attack_kw_hits)) >>
        ELSE <<>>)

\* lines 147-155: cve_data is a list of {id, cvss, severity}
CveContribution(cve_data) ==
    IF cve_data = <<>> THEN <<>>
    ELSE LET max_cvss == MaxOfSet({cve_data[i].cvss : i \in 1..Len(cve_data)})
         IN  IF max_cvss > 0
                THEN << Contribution("CVE detected", "", max_cvss,
                                     Min2(18000, max_cvss * 180)) >>
                ELSE <<>>

\* lines 158-163: ioc_counts is None or a dict of counts
\* (mutation: one indicator is enough)
IocContributionMutAtLeast1(ioc_counts) ==
    IF ioc_counts = None THEN <<>>
    ELSE LET c         == ioc_counts[1]
             ioc_total == c.ips + c.domains + c.emails
         IN  IF ioc_total >= 1
                THEN << Contribution("IOCs present", "", ioc_total,
                                     Min2(10000, 3000 * ioc_total)) >>
                ELSE <<>>
IocContribution(ioc_counts) ==
    IF ioc_counts = None THEN <<>>
    ELSE LET c         == ioc_counts[1]
             ioc_total == c.ips + c.domains + c.emails
         IN  IF ioc_total >= 2
                THEN << Contribution("IOCs present", "", ioc_total,
                                     Min2(10000, 3000 * ioc_total)) >>
                ELSE <<>>

\* The contributions in the order score_threat applies them.
\* (mutation: the sector part applied before the intent part)
ContributionsMutSectorFirst(intent_label, intent_conf, sector_label, sector_conf, fs, vuln_risk, security_like, attack_kw_hits, cve_data, ioc_counts) ==
    LeakContributions(fs)
    \o SectorContribution(sector_label, sector_conf)
    \o IntentContribution(intent_label, intent_conf)
    \o VulnContribution(vuln_risk)
    \o KeywordContributions(security_like, attack_kw_hits)
    \o CveContribution(cve_data)
    \o IocContribution(ioc_counts)
Contributions(intent_label, intent_conf, sector_label, sector_conf, fs, vuln_risk, security_like, attack_kw_hits, cve_data, ioc_counts) ==
    LeakContributions(fs)
    \o IntentContribution(intent_label, intent_conf)
    \o SectorContribution(sector_label, sector_conf)
    \o VulnContribution(vuln_risk)
    \o KeywordContributions(security_like, attack_kw_hits)
    \o CveContribution(cve_data)
    \o IocContribution(ioc_counts)

\* The reason string appended for a contribution: its text, and the amount
\* it shows, in tenths of a point.
Reason(c) ==
    [kind |-> c.kind, label |-> c.label, detail |-> c.detail,
     shown |-> Fmt1(c.pts)]

\* score_threat(...) -> {"score": clamp(score), "reasons": reasons}
score_threat(intent_label, intent_conf, sector_label, sector_conf, fs, vuln_risk, security_like, attack_kw_hits, cve_data, ioc_counts) ==
    LET cs == Contributions(intent_label, intent_conf, sector_label,
                            sector_conf, fs, vuln_risk, security_like,
                            attack_kw_hits, cve_data, ioc_counts)
    IN  [score   |-> clamp(SumSeq([i \in 1..Len(cs) |-> cs[i].pts])),
         reasons |-> [i \in 1..Len(cs) |-> Reason(cs[i])]]

-----------------------------------------------------------------------------
(* ml/infer.py: what build_alert reads of the models *)

\* NorthStarModels.vuln_risk_predict: vuln_pipe is "none" (no model file),
\* "ok" (predict returns vr_pred) or "error" (predict raises).
vuln_risk_predict(vuln_pipe, vr_pred) ==
    CASE vuln_pipe = "none"  -> [score |-> 0,       method |-> "none"]
      [] vuln_pipe = "ok"    -> [score |-> vr_pred, method |-> "ml"]
      [] vuln_pipe = "error" -> [score |-> 0,       method |-> "error"]

\* NorthStarModels.predict_all, given what the classifiers answer for the text
predict_all(x) ==
    [intent    |-> x.intent,
     sectors   |-> x.sectors,
     vuln_risk |-> IF x.vuln_features # None
                      THEN Some(vuln_risk_predict(x.vuln_pipe, x.vr_pred))
                      ELSE None]

-----------------------------------------------------------------------------
(* ml/pipeline.py: sector_override and build_alert *)

\* SECTOR_HINTS, in the dict's iteration order
SectorHintOrder ==
    <<"banking", "upi", "railways", "power_grid", "telecom", "airport",
      "ports", "oil">>

\* The loop of sector_override over hits[i], the number of hints of sector
\* SectorHintOrder[i] that occur in the text.
RECURSIVE OverrideLoop(_, _, _, _)
OverrideLoop(hits, i, best, best_hits) ==
    IF i > Len(SectorHintOrder) THEN [best |-> best, best_hits |-> best_hits]
    ELSE IF hits[i] > best_hits
            THEN OverrideLoop(hits, i + 1, Some(SectorHintOrder[i]), hits[i])
            ELSE OverrideLoop(hits, i + 1, best, best_hits)

sector_override(hits) ==
    LET r == OverrideLoop(hits, 1, None, 0)
    IN  IF r.best_hits > 0 THEN r ELSE [best |-> None, best_hits |-> 0]

\* add_entity applied to each value of one kind, in list order
RECURSIVE AddEntities(_, _, _)
AddEntities(ents, kind, values) ==
    IF values = <<>> THEN ents
    ELSE LET e    == [kind |-> kind, value |-> Head(values)]
             seen == {ents[i] : i \in 1..Len(ents)}
         IN  AddEntities(IF e \in seen THEN ents ELSE Append(ents, e),
                         kind, Tail(values))

\* lines 186-209: the generic entities, then the indicators not yet present
\* (mutation: the indicators appended without looking for them)
MergeEntitiesMutNoLookup(ents, iocs, cve_data) ==
    ents
    \o [i \in 1..Len(iocs.ips) |-> [kind |-> "ip", value |-> iocs.ips[i]]]
    \o [i \in 1..Len(iocs.domains) |-> [kind |-> "domain", value |-> iocs.domains[i]]]
    \o [i \in 1..Len(iocs.emails) |-> [kind |-> "email", value |-> iocs.emails[i]]]
    \o [i \in 1..Len(cve_data) |-> [kind |-> "cve", value |-> cve_data[i].id]]
MergeEntities(ents, iocs, cve_data) ==
    LET e1 == AddEntities(ents, "ip", iocs.ips)
        e2 == AddEntities(e1, "domain", iocs.domains)
        e3 == AddEntities(e2, "email", iocs.emails)
    IN  AddEntities(e3, "cve", [i \in 1..Len(cve_data) |-> cve_data[i].id])

\* lines 220-232
\* (mutation: the final override of line 231 left out)
CategoryMutNoOverride(fs, vuln_features, security_like, intent) ==
    IF fs # <<>> THEN "leak"
    ELSE IF vuln_features # None THEN "vulnerability"
    ELSE IF (~security_like) /\ intent.confidence < 45 THEN "noise"
    ELSE IF intent.label \in {"planning", "claim"} THEN "attack_chatter"
    ELSE "discussion"

Category(fs, vuln_features, security_like, intent) ==
    LET c == IF fs # <<>> THEN "leak"
             ELSE IF vuln_features # None THEN "vulnerability"
             ELSE IF (~security_like) /\ intent.confidence < 45 THEN "noise"
             ELSE IF intent.label \in {"planning", "claim"} THEN "attack_chatter"
             ELSE "discussion"
    IN  IF intent.label = "irrelevant" /\ intent.confidence >= 55 /\ fs = <<>>
           THEN "noise" ELSE c

NoiseReason ==
    [kind |-> "Classified as noise (low signal)", label |-> "", detail |-> 0,
     shown |-> 0]

\* lines 256-258
\* (mutation: the cap and the reason applied to every category)
NoiseAdjustMutAlways(category, scored) ==
    [score |-> Min2(scored.score, 3000), reasons |-> <<NoiseReason>> \o scored.reasons]

NoiseAdjust(category, scored) ==
    IF category = "noise"
       THEN [score   |-> Min2(scored.score, 3000),
             reasons |-> <<NoiseReason>> \o scored.reasons]
       ELSE scored

\* line 191: enrich_cves over the extracted CVE ids; x.cvss[i] is the
\* severity random.uniform drew for the i-th id
CveData(x) ==
    IF x.iocs.cves # <<>>
       THEN [i \in 1..Len(x.iocs.cves) |->
                [id |-> x.iocs.cves[i], cvss |-> x.cvss[i]]]
       ELSE <<>>

\* lines 180-183 and 215-218: the classifier's first sector, unless the
\* keyword heuristic names another one
SectorAfterOverride(x) ==
    LET sector0 == predict_all(x).sectors[1]
        ovr     == sector_override(x.sector_hits)
    IN  IF ovr.best # None /\ ovr.best_hits >= 1 /\ ovr.best[1] # sector0.label
           THEN [label |-> ovr.best[1],
                 confidence |-> Max2(sector0.confidence, 75)]
           ELSE sector0

\* line 234
\* (mutation: the model's answer used whether or not features were supplied)
VulnRiskMutAlways(x) == Some(vuln_risk_predict(x.vuln_pipe, x.vr_pred))
VulnRisk(x) ==
    IF x.vuln_features # None THEN predict_all(x).vuln_risk ELSE None

\* lines 236-254: the call of score_threat
Scored(x) ==
    LET pred   == predict_all(x)
        sector == SectorAfterOverride(x)
    IN  score_threat(pred.intent.label, pred.intent.confidence,
                     sector.label, sector.confidence,
                     x.findings, VulnRisk(x),
                     x.attack_hits > 0, x.attack_hits, CveData(x),
                     Some([ips     |-> Len(x.iocs.ips),
                           domains |-> Len(x.iocs.domains),
                           emails  |-> Len(x.iocs.emails),
                           cves    |-> Len(x.iocs.cves)]))

\* build_alert(text, post_meta, vuln_features), where x holds what the
\* classifiers, detectors and extractors answer for the text.
build_alert(x) ==
    LET pred     == predict_all(x)
        sector   == SectorAfterOverride(x)
        category == Category(x.findings, x.vuln_features, x.attack_hits > 0,
                             pred.intent)
        scored   == NoiseAdjust(category, Scored(x))
    IN  [category      |-> category,
         sector        |-> sector.label,
         intent        |-> pred.intent,
         sectors       |-> << sector >>,
         score         |-> scored.score,
         score_reasons |-> scored.reasons,
         findings      |-> x.findings,
         entities      |-> MergeEntities(x.entities, x.iocs, CveData(x)),
         cve_enriched  |-> CveData(x),
         vuln_risk     |-> VulnRisk(x)]

-----------------------------------------------------------------------------
(* Inputs of one pipeline run *)

MaxFindings == 2

SeqsUpTo(S, n) == UNION {[1..k -> S] : k \in 0..n}

\* Findings as leak_detector or any other caller of score_threat may pass
\* them; "API_KEY" is a type SEVERITY_WEIGHTS does not list.
FindingChoices ==
    { [type |-> "PRIVATE_KEY_BLOCK",   confidence |-> 95, evidence |-> "ev", masked_value |-> "m"],
      [type |-> "PASSWORD_ASSIGNMENT", confidence |-> 65, evidence |-> "ev", masked_value |-> "m"],
      [type |-> "API_KEY",             confidence |-> 95, evidence |-> "ev", masked_value |-> "m"],
      [type |-> "API_KEY",             confidence |-> 65, evidence |-> "ev", masked_value |-> "m"] }

\* Intent as the classifier interface returns it; a legacy bundle passes raw
\* decision scores through predict_proba, so a confidence may leave [0,1].
IntentChoices ==
    { [label |-> l, confidence |-> c] :
        l \in {"planning", "discussion", "irrelevant", "class_0"},
        c \in {-50, 30, 45, 55, 150} }

SectorChoices ==
    { << [label |-> "other", confidence |-> 40] >>,
      << [label |-> "class_0", confidence |-> 150],
         [label |-> "other", confidence |-> 20] >> }

NoHits == [i \in 1..Len(SectorHintOrder) |-> 0]

SectorHitChoices ==
    { NoHits, [NoHits EXCEPT ![2] = 2] }

VulnChoices ==
    { [vuln_features |-> None,        vuln_pipe |-> "ok",   vr_pred |-> 50],
      [vuln_features |-> Some("vf"),  vuln_pipe |-> "ok",   vr_pred |-> -20],
      [vuln_features |-> Some("vf"),  vuln_pipe |-> "ok",   vr_pred |-> 50],
      [vuln_features |-> Some("vf"),  vuln_pipe |-> "ok",   vr_pred |-> 150],
      [vuln_features |-> Some("vf"),  vuln_pipe |-> "none", vr_pred |-> 0] }

\* What the two extractors find in a text: nothing; an address, a mailbox and
\* its domain; a CVE id, two addresses, a host name and a file name (which
\* only the indicator extractor takes for a domain).
IocChoices ==
    { [entities |-> <<>>,
       iocs |-> [cves |-> <<>>, ips |-> <<>>, domains |-> <<>>, emails |-> <<>>],
       cvss |-> <<>>],
      [entities |-> << [kind |-> "ip", value |-> "10.0.0.5"],
                       [kind |-> "email", value |-> "admin@example.com"],
                       [kind |-> "domain", value |-> "example.com"] >>,
       iocs |-> [cves |-> <<>>, ips |-> <<"10.0.0.5">>,
                 domains |-> <<"example.com">>,
                 emails |-> <<"admin@example.com">>],
       cvss |-> <<>>],
      [entities |-> << [kind |-> "ip", value |-> "10.0.0.5"],
                       [kind |-> "ip", value |-> "10.0.0.6"],
                       [kind |-> "domain", value |-> "a.example.com"] >>,
       iocs |-> [cves |-> <<"CVE-2021-44228">>, ips |-> <<"10.0.0.5", "10.0.0.6">>,
                 domains |-> <<"a.example.com", "notes.txt">>, emails |-> <<>>],
       cvss |-> <<98>>] }

AttackHitChoices == {0, 1, 3}

PipelineInput(i, s, h, f, v, k, a) ==
    [intent        |-> i,
     sectors       |-> s,
     sector_hits   |-> h,
     findings      |-> f,
     vuln_features |-> v.vuln_features,
     vuln_pipe     |-> v.vuln_pipe,
     vr_pred       |-> v.vr_pred,
     entities      |-> k.entities,
     iocs          |-> k.iocs,
     cvss          |-> k.cvss,
     attack_hits   |-> a]

PipelineInputs ==
    { PipelineInput(i, s, h, f, v, k, a) :
        i \in IntentChoices, s \in SectorChoices, h \in SectorHitChoices,
        f \in SeqsUpTo(FindingChoices, MaxFindings), v \in VulnChoices,
        k \in IocChoices, a \in AttackHitChoices }

\* Inputs that exercise the scorer: the thresholds and caps of the keyword
\* and indicator parts, a vulnerability model that fails on features with no
\* fields, a severity at each end of what enrich_cves draws.
ScoreFindingChoices ==
    { <<>>,
      << [type |-> "PRIVATE_KEY_BLOCK", confidence |-> 95, evidence |-> "ev",
          masked_value |-> "m"] >> }

ScoreVulnChoices ==
    VulnChoices \cup
    { [vuln_features |-> Some("empty"), vuln_pipe |-> "error", vr_pred |-> 0] }

ScoreIocChoices ==
    IocChoices \cup
    { [entities |-> << [kind |-> "ip", value |-> "10.0.0.5"] >>,
       iocs |-> [cves |-> <<>>, ips |-> <<"10.0.0.5">>, domains |-> <<>>,
                 emails |-> <<>>],
       cvss |-> <<>>],
      [entities |-> <<>>,
       iocs |-> [cves |-> <<"CVE-2021-44228", "CVE-2014-0160">>, ips |-> <<>>,
                 domains |-> <<>>, emails |-> <<>>],
       cvss |-> <<60, 75>>] }

ScoreAttackHitChoices == {0, 1, 2, 4}

ScoreInputs ==
    { PipelineInput(i, s, h, f, v, k, a) :
        i \in IntentChoices, s \in SectorChoices, h \in SectorHitChoices,
        f \in ScoreFindingChoices, v \in ScoreVulnChoices,
        k \in ScoreIocChoices, a \in ScoreAttackHitChoices }

\* SECTOR_HINTS: the hints of each sector
SECTOR_HINTS ==
    [s \in {SectorHintOrder[i] : i \in 1..Len(SectorHintOrder)} |->
        CASE s = "banking"    -> {"bank", "banking", "swift", "atm"}
          [] s = "upi"        -> {"upi", "npci", "payment gateway", "upi gateway"}
          [] s = "railways"   -> {"rail", "railways", "irctc", "train"}
          [] s = "power_grid" -> {"power grid", "grid", "substation", "scada", "electric"}
          [] s = "telecom"    -> {"telecom", "telco", "sim swap", "tower", "5g", "lte"}
          [] s = "airport"    -> {"airport", "aviation", "airline"}
          [] s = "ports"      -> {"port", "ports", "harbor", "harbour", "container terminal"}
          [] s = "oil"        -> {"oil", "refinery", "pipeline", "gas plant", "petroleum"}]

HintPhrases == UNION {SECTOR_HINTS[s] : s \in DOMAIN SECTOR_HINTS}

\* "h in t" for a text t that holds the phrase p: the hint h is p itself or a
\* substring of it.
HintWithin(h, p) ==
    \/ h = p
    \/ <<h, p>> \in { <<"bank", "banking">>, <<"upi", "upi gateway">>,
                      <<"rail", "railways">>, <<"grid", "power grid">>,
                      <<"port", "ports">>, <<"port", "airport">> }

\* line 83, for each sector in turn: the number of its hints that occur in a
\* text holding the given hint phrases and no other.
SectorHitsOf(phrases) ==
    [i \in 1..Len(SectorHintOrder) |->
        Cardinality({h \in SECTOR_HINTS[SectorHintOrder[i]] :
                        \E p \in phrases : HintWithin(h, p)})]

\* Inputs that exercise the sector override: texts that hold up to MaxPhrases
\* hint phrases, and a classifier that answers the generic sector, a sector
\* the hints may name too, or a sector with a confidence above 0.75.
MaxPhrases == 2

RECURSIVE SetsUpTo(_, _)
SetsUpTo(S, n) ==
    IF n = 0 THEN {{}}
    ELSE LET smaller == SetsUpTo(S, n - 1)
         IN  smaller \cup {T \cup {x} : T \in smaller, x \in S}

PhraseSets == SetsUpTo(HintPhrases, MaxPhrases)

OverrideSectorChoices ==
    { << [label |-> "other", confidence |-> 40] >>,
      << [label |-> "airport", confidence |-> 40],
         [label |-> "other", confidence |-> 35] >>,
      << [label |-> "banking", confidence |-> 90],
         [label |-> "upi", confidence |-> 5] >> }

OverrideInputs ==
    { PipelineInput([label |-> "discussion", confidence |-> 55], s,
                    SectorHitsOf(T), <<>>,
                    [vuln_features |-> None, vuln_pipe |-> "ok", vr_pred |-> 50],
                    [entities |-> <<>>,
                     iocs |-> [cves |-> <<>>, ips |-> <<>>, domains |-> <<>>,
                               emails |-> <<>>],
                     cvss |-> <<>>],
                    1) :
        s \in OverrideSectorChoices, T \in PhraseSets }

-----------------------------------------------------------------------------
(* backend/app/pipeline_store.py: the ingestion gate *)

MaxCalls   == 3
NumWorkers == 2

Workers == 1..NumWorkers

Whitespace == {" ", "\n", "\t"}

\* str.strip()
RECURSIVE LStrip(_)
LStrip(t) == IF t # <<>> /\ Head(t) \in Whitespace THEN LStrip(Tail(t)) ELSE t

RECURSIVE RStrip(_)
RStrip(t) ==
    IF t # <<>> /\ t[Len(t)] \in Whitespace
       THEN RStrip(SubSeq(t, 1, Len(t) - 1)) ELSE t

strip(t) == RStrip(LStrip(t))

\* _hash(source, url, text): the SHA-256 digest of the joined string.  The
\* digest is held as the string it digests (SHA-256 taken as collision-free).
\* (mutation: the text hashed without strip())
HashMutRawText(source, url, text) ==
    source \o <<"|", "|">> \o url \o <<"|", "|">> \o text
_hash(source, url, text) ==
    source \o <<"|", "|">> \o url \o <<"|", "|">> \o strip(text)

\* The calls the collectors and endpoints make.
Requests ==
    { [source |-> <<"s">>, url |-> <<"u">>, text |-> <<"t">>,
       title |-> Some("title1"), author |-> Some("author1"),
       created_at |-> Some(1), vuln_features |-> None],
      [source |-> <<"s">>, url |-> <<"u">>, text |-> <<" ", "t", "\n">>,
       title |-> None, author |-> Some("author2"),
       created_at |-> Some(2), vuln_features |-> Some("vf")],
      [source |-> <<"s">>, url |-> <<"u">>, text |-> <<"x">>,
       title |-> Some("title1"), author |-> Some("author1"),
       created_at |-> None, vuln_features |-> None],
      [source |-> <<"s">>, url |-> <<"v">>, text |-> <<"t">>,
       title |-> Some("title2"), author |-> None,
       created_at |-> Some(1), vuln_features |-> None] }

\* What the classifiers, detectors and extractors answer for a request's
\* text: "t" carries a password assignment, "x" is small talk.
TextFeatures(r) ==
    LET v == [vuln_features |-> r.vuln_features, vuln_pipe |-> "ok",
              vr_pred |-> 50]
    IN  IF strip(r.text) = <<"t">>
           THEN PipelineInput(
                  [label |-> "leak", confidence |-> 55],
                  << [label |-> "other", confidence |-> 40] >>,
                  NoHits,
                  << [type |-> "PASSWORD_ASSIGNMENT", confidence |-> 65,
                      evidence |-> "ev", masked_value |-> "m"] >>,
                  v,
                  [entities |-> << [kind |-> "ip", value |-> "10.0.0.5"] >>,
                   iocs |-> [cves |-> <<>>, ips |-> <<"10.0.0.5">>,
                             domains |-> <<>>, emails |-> <<>>],
                   cvss |-> <<>>],
                  1)
           ELSE PipelineInput(
                  [label |-> "irrelevant", confidence |-> 55],
                  << [label |-> "other", confidence |-> 40] >>,
                  NoHits, <<>>, v,
                  [entities |-> <<>>,
                   iocs |-> [cves |-> <<>>, ips |-> <<>>, domains |-> <<>>,
                             emails |-> <<>>],
                   cvss |-> <<>>],
                  0)

\* The id an autoincrement primary key gives the next row of a table.
NextId(table) ==
    IF table = {} THEN 1 ELSE MaxOfSet({row.id : row \in table}) + 1

\* Post.hash is declared unique: the store refuses a second row with the hash.
\* (mutation: the column declared without unique=True)
UniqueViolationMutOff(h) == FALSE
UniqueViolation(h) == \E row \in posts : row.hash = h

\* select(Post).where(Post.hash == h) ... .first()
\* (mutation: the lookup finds nothing)
SelectPostMutNone(h) == None
SelectPostByHash(h) ==
    LET found == {row \in posts : row.hash = h}
    IN  IF found = {} THEN None
        ELSE Some(CHOOSE row \in found : \A o \in found : row.id <= o.id)

\* select(Alert).where(Alert.post_id == id).order_by(Alert.id.desc()).first()
\* (mutation: the where clause on post_id left out)
LatestAlertMutAnyPost(id) ==
    IF alerts = {} THEN None
    ELSE Some(CHOOSE a \in alerts : \A o \in alerts : o.id <= a.id)
LatestAlert(id) ==
    LET found == {a \in alerts : a.post_id = id}
    IN  IF found = {} THEN None
        ELSE Some(CHOOSE a \in found : \A o \in found : o.id <= a.id)

Returned(post_id, alert_id) ==
    [kind |-> "returned", post_id |-> post_id, alert_id |-> alert_id, error |-> ""]
Raised(error) ==
    [kind |-> "raised", post_id |-> 0, alert_id |-> 0, error |-> error]

NoLocal == [h |-> <<>>, existing |-> None, post |-> None]

\* lines 25-27: hash the content and look the post up
Call(w, r) ==
    /\ pc[w] = "idle"
    /\ calls < MaxCalls
    /\ calls' = calls + 1
    /\ args' = [args EXCEPT ![w] = Some(r)]
    /\ result' = [result EXCEPT ![w] = None]
    /\ ran' = [ran EXCEPT ![w] = FALSE]
    /\ LET h        == _hash(r.source, r.url, r.text)
           existing == SelectPostByHash(h)
       IN  /\ local' = [local EXCEPT ![w] =
                          [h |-> h, existing |-> existing, post |-> None]]
           /\ pc' = [pc EXCEPT ![w] =
                          IF existing # None THEN "existing" ELSE "insert"]
    /\ UNCHANGED <<posts, alerts, findings, entities>>

\* lines 29-30: already ingested
ReturnExisting(w) ==
    /\ pc[w] = "existing"
    /\ LET existing == local[w].existing[1]
           a        == LatestAlert(existing.id)
       IN  result' = [result EXCEPT ![w] =
                        Some(Returned(existing.id,
                                      IF a # None THEN a[1].id ELSE -1))]
    /\ pc' = [pc EXCEPT ![w] = "idle"]
    /\ UNCHANGED <<posts, alerts, findings, entities, args, local, ran, calls>>

\* lines 32-43: insert the post and commit
InsertPost(w) ==
    /\ pc[w] = "insert"
    /\ IF UniqueViolation(local[w].h)
          THEN \* the commit raises IntegrityError, which nothing catches
               /\ result' = [result EXCEPT ![w] = Some(Raised("IntegrityError"))]
               /\ pc' = [pc EXCEPT ![w] = "idle"]
               /\ UNCHANGED <<posts, local>>
          ELSE LET r  == args[w][1]
                   id == NextId(posts)
               IN  /\ posts' = posts \cup
                                 { [id |-> id, source |-> r.source, url |-> r.url,
                                    title |-> r.title, author |-> r.author,
                                    created_at |-> r.created_at, text |-> r.text,
                                    hash |-> local[w].h] }
                   /\ local' = [local EXCEPT ![w].post = Some(id)]
                   /\ pc' = [pc EXCEPT ![w] = "pipeline"]
                   /\ UNCHANGED result
    /\ UNCHANGED <<alerts, findings, entities, args, ran, calls>>

\* line 46, when build_alert raises (a model file is missing, a classifier
\* fails): the post stays committed, nothing else is written
PipelineRaises(w) ==
    /\ pc[w] = "pipeline"
    /\ ran' = [ran EXCEPT ![w] = TRUE]
    /\ result' = [result EXCEPT ![w] = Some(Raised("PipelineError"))]
    /\ pc' = [pc EXCEPT ![w] = "idle"]
    /\ UNCHANGED <<posts, alerts, findings, entities, args, local, calls>>

\* lines 46-86: run the pipeline, store findings, entities and the alert
StoreAlert(w) ==
    /\ pc[w] = "pipeline"
    /\ ran' = [ran EXCEPT ![w] = TRUE]
    /\ LET r         == args[w][1]
           post_id   == local[w].post[1]
           alert_obj == build_alert(TextFeatures(r))
           f0        == NextId(findings) - 1
           e0        == NextId(entities) - 1
           a_id      == NextId(alerts)
       IN  /\ findings' = findings \cup
                { [id |-> f0 + i, post_id |-> post_id,
                   type |-> alert_obj.findings[i].type,
                   confidence |-> alert_obj.findings[i].confidence,
                   evidence |-> alert_obj.findings[i].evidence,
                   masked_value |-> alert_obj.findings[i].masked_value] :
                  i \in 1..Len(alert_obj.findings) }
           /\ entities' = entities \cup
                { [id |-> e0 + i, post_id |-> post_id,
                   kind |-> alert_obj.entities[i].kind,
                   value |-> alert_obj.entities[i].value] :
                  i \in 1..Len(alert_obj.entities) }
           /\ alerts' = alerts \cup
                { [id |-> a_id, post_id |-> post_id,
                   category |-> alert_obj.category,
                   sector |-> alert_obj.sector,
                   intent |-> alert_obj.intent.label,
                   intent_confidence |-> alert_obj.intent.confidence,
                   score |-> alert_obj.score,
                   score_reasons |-> alert_obj.score_reasons,
                   status |-> "open",
                   vuln_risk_score |->
                       IF alert_obj.vuln_risk # None
                          THEN Some(alert_obj.vuln_risk[1].score) ELSE None,
                   vuln_risk_method |->
                       IF alert_obj.vuln_risk # None
                          THEN Some(alert_obj.vuln_risk[1].method) ELSE None] }
           /\ result' = [result EXCEPT ![w] = Some(Returned(post_id, a_id))]
    /\ pc' = [pc EXCEPT ![w] = "idle"]
    /\ UNCHANGED <<posts, args, local, calls>>

-----------------------------------------------------------------------------
(* ml/infer.py: the classifier interface *)
(* A probability is held in thousandths (0.55 is 550); a decision score is *)
(* a whole number.                                                         *)

\* What a call of a model's method gives: a value, or an exception.
Ok(v) == [ok |-> TRUE, v |-> v]
Fail  == [ok |-> FALSE, v |-> <<>>]
FailLabel == [ok |-> FALSE, v |-> ""]

\* _sigmoid(x), in thousandths, for the decision scores -3 .. 3
_sigmoid(x) ==
    CASE x = -3 -> 47
      [] x = -2 -> 119
      [] x = -1 -> 269
      [] x = 0  -> 500
      [] x = 1  -> 731
      [] x = 2  -> 881
      [] x = 3  -> 953

\* _normalize_probs_fallback(scores): sigmoid of each, divided by their sum
_normalize_probs_fallback(scores) ==
    IF scores = <<>> THEN <<>>
    ELSE LET ps  == [i \in 1..Len(scores) |-> _sigmoid(scores[i])]
             sum == SumSeq(ps)
             s   == IF sum = 0 THEN 1000 ELSE sum
         IN  [i \in 1..Len(ps) |-> (ps[i] * 1000) \div s]

\* list(zip(labels, row)): pairs up to the shorter of the two
Zip(labels, row) ==
    [i \in 1..Min2(Len(labels), Len(row)) |-> [label |-> labels[i], p |-> row[i]]]

\* pairs.sort(key=lambda x: x[1], reverse=True): by descending probability,
\* pairs of equal probability staying in their order
RECURSIVE SortDesc(_)
SortDesc(pairs) ==
    IF pairs = <<>> THEN <<>>
    ELSE LET rest == SortDesc(SubSeq(pairs, 1, Len(pairs) - 1))
             x    == pairs[Len(pairs)]
             k    == Cardinality({i \in 1..Len(rest) : rest[i].p >= x.p})
         IN  SubSeq(rest, 1, k) \o <<x>> \o SubSeq(rest, k + 1, Len(rest))

\* [f"class_{i}" for i in range(n)]
ClassLabels(n) == SubSeq(<<"class_0", "class_1", "class_2", "class_3">>, 1, n)

\* _bundle_to_pipeline: the pipeline of a new-format bundle is the trained
\* pipeline itself; a legacy bundle is wrapped in _LegacyPipe, which has all
\* three methods whatever its classifier has.
PipeHasProba(w) == w.format = "legacy" \/ w.has_proba
PipeHasDecision(w) == w.format = "legacy" \/ w.has_df

\* pipe.predict_proba([text]); _LegacyPipe hands out the decision scores of
\* a classifier that has no predict_proba
PipePredictProba(w) ==
    IF w.has_proba THEN w.proba
    ELSE IF w.has_df THEN w.df
    ELSE Fail

\* pipe.decision_function([text])
PipeDecisionFunction(w) == IF w.has_df THEN w.df ELSE Fail

Predicted(label, confidence, pairs) ==
    [kind |-> "returned", label |-> label, confidence |-> confidence,
     pairs |-> pairs, error |-> ""]
PredictRaised(error) ==
    [kind |-> "raised", label |-> "", confidence |-> 0, pairs |-> <<>>,
     error |-> error]

\* lines 170-196: the decision scores, normalised
FromDecisionScores(w) ==
    LET df == PipeDecisionFunction(w)
    IN  IF ~df.ok THEN PredictRaised("decision_function")
        ELSE LET scores  == df.v
                 labels0 == IF w.labels = <<>> THEN ClassLabels(Len(scores))
                            ELSE w.labels
                 labels  == IF Len(scores) # Len(labels0)
                               THEN SubSeq(labels0, 1, Min2(Len(labels0), Len(scores)))
                               ELSE labels0
                 pairs   == SortDesc(Zip(labels, _normalize_probs_fallback(scores)))
             IN  Predicted(pairs[1].label, pairs[1].p, pairs)

\* lines 198-200: the bare prediction
FromPredict(w) ==
    IF ~w.predict.ok THEN PredictRaised("predict")
    ELSE Predicted(w.predict.v, 550, << [label |-> w.predict.v, p |-> 550] >>)

\* NorthStarModels._predict_single_label(wrap, text)
_predict_single_label(w) ==
    LET proba == IF PipeHasProba(w) /\ PipePredictProba(w).ok
                    THEN Some(PipePredictProba(w).v) ELSE None
    IN  IF proba # None /\ w.labels # <<>> /\ Len(proba[1]) = Len(w.labels)
           THEN LET pairs == SortDesc(Zip(w.labels, proba[1]))
                IN  Predicted(pairs[1].label, pairs[1].p, pairs)
        ELSE IF PipeHasDecision(w) THEN FromDecisionScores(w)
        ELSE FromPredict(w)

\* NorthStarModels._predict_top_sectors(text, top_k)
_predict_top_sectors(w, top_k) ==
    LET r == _predict_single_label(w)
    IN  IF r.kind = "raised" THEN r
        ELSE [r EXCEPT !.pairs = SubSeq(r.pairs, 1,
                                        Min2(Len(r.pairs), Max2(1, top_k)))]

\* The models a bundle may hold, and what they answer for one text.
ProbaChoices ==
    { Fail, Ok(<<500, 400, 100>>), Ok(<<200, 450, 350>>), Ok(<<400, 400, 200>>),
      Ok(<<300, 700>>) }

DecisionChoices == { Fail, Ok(<<0, 2, -1>>), Ok(<<1, 1, -3>>), Ok(<<2>>) }

LabelChoices ==
    { <<>>, <<"other", "banking", "upi">>, <<"other", "banking">> }

Wraps ==
    { [format |-> f, labels |-> l, has_proba |-> hp, proba |-> pr,
       has_df |-> hd, df |-> d, predict |-> y] :
        f \in {"pipeline", "legacy"}, l \in LabelChoices,
        hp \in BOOLEAN, pr \in ProbaChoices, hd \in BOOLEAN,
        d \in DecisionChoices, y \in {FailLabel, Ok("banking")} }

\* a model without a method gives no answer for it
WrapInputs ==
    { w \in Wraps : /\ (~w.has_proba => w.proba = Fail)
                    /\ (~w.has_df => w.df = Fail) }

\* predict_all, lines 233-234: the single label, and the top 3 sectors
Classify ==
    /\ cpc = "ready"
    /\ prediction' = Some([single  |-> _predict_single_label(wrap[1]),
                           sectors |-> _predict_top_sectors(wrap[1], 3)])
    /\ cpc' = "done"
    /\ UNCHANGED wrap

-----------------------------------------------------------------------------
(* ml/detectors.py: the leak detector *)
(* A text is a sequence of characters; a position is a Python index, from  *)
(* 0; a confidence is held in hundredths; an entropy in millionths of a    *)
(* bit per character.                                                      *)

\* s[a:b] for 0 <= a <= b <= len(s)
Slice(s, a, b) == SubSeq(s, a + 1, b)

\* str.lower(), one character at a time
UpperCase ==
    <<"A", "B", "C", "D", "E", "F", "G", "H", "I", "J", "K", "L", "M", "N",
    "O", "P", "Q", "R", "S", "T", "U", "V", "W", "X", "Y", "Z">>
LowerCase ==
    <<"a", "b", "c", "d", "e", "f", "g", "h", "i", "j", "k", "l", "m", "n",
    "o", "p", "q", "r", "s", "t", "u", "v", "w", "x", "y", "z">>

Lower(c) ==
    IF \E i \in 1..Len(UpperCase) : UpperCase[i] = c
       THEN LowerCase[CHOOSE i \in 1..Len(UpperCase) : UpperCase[i] = c]
       ELSE c

lower(s) == [i \in 1..Len(s) |-> Lower(s[i])]

\* k in s
Contains(s, k) ==
    \E i \in 1..(Len(s) - Len(k) + 1) : SubSeq(s, i, i + Len(k) - 1) = k

\* the keywords of context_has_keywords
ContextKeywords ==
    { <<"p", "a", "s", "s", "w", "o", "r", "d">>,
      <<"p", "a", "s", "s", "w", "d">>,
      <<"p", "w", "d">>,
      <<"t", "o", "k", "e", "n">>,
      <<"a", "p", "i", " ", "k", "e", "y">>,
      <<"a", "p", "i", "k", "e", "y">>,
      <<"s", "e", "c", "r", "e", "t">>,
      <<"a", "u", "t", "h">>,
      <<"a", "u", "t", "h", "o", "r", "i", "z", "a", "t", "i", "o", "n">>,
      <<"c", "r", "e", "d", "e", "n", "t", "i", "a", "l">>,
      <<"c", "r", "e", "d", "s">>,
      <<"b", "e", "a", "r", "e", "r">>,
      <<"k", "e", "y", "=">> }

\* context_has_keywords(text, start, end, window=40)
\* (mutation: the window taken before the match only)
ContextMutLeftOnly(text, start, end) ==
    LET left  == Max2(0, start - 40)
        chunk == lower(Slice(text, left, end))
    IN  \E k \in ContextKeywords : Contains(chunk, k)
context_has_keywords(text, start, end) ==
    LET left  == Max2(0, start - 40)
        right == Min2(Len(text), end + 40)
        chunk == lower(Slice(text, left, right))
    IN  \E k \in ContextKeywords : Contains(chunk, k)

\* math.log2(k) for k in 1 .. 64, in millionths of a bit
Log2Table ==
    << 0, 1000000, 1584963, 2000000, 2321928, 2584963, 2807355, 3000000,
    3169925, 3321928, 3459432, 3584963, 3700440, 3807355, 3906891, 4000000,
    4087463, 4169925, 4247928, 4321928, 4392317, 4459432, 4523562, 4584963,
    4643856, 4700440, 4754888, 4807355, 4857981, 4906891, 4954196, 5000000,
    5044394, 5087463, 5129283, 5169925, 5209453, 5247928, 5285402, 5321928,
    5357552, 5392317, 5426265, 5459432, 5491853, 5523562, 5554589, 5584963,
    5614710, 5643856, 5672425, 5700440, 5727920, 5754888, 5781360, 5807355,
    5832890, 5857981, 5882643, 5906891, 5930737, 5954196, 5977280, 6000000
    >>

\* the sum of c * log2(c) over the numbers c of occurrences of each character
RECURSIVE CountLogSum(_, _)
CountLogSum(s, chars) ==
    IF chars = {} THEN 0
    ELSE LET ch == CHOOSE x \in chars : TRUE
             c  == Cardinality({i \in 1..Len(s) : s[i] = ch})
         IN  c * Log2Table[c] + CountLogSum(s, chars \ {ch})

\* shannon_entropy(s): minus the sum of p * log2(p) over the characters,
\* which is log2(n) less the sum of c * log2(c) divided by n
shannon_entropy(s) ==
    IF s = <<>> THEN 0
    ELSE LET n == Len(s)
         IN  (n * Log2Table[n] - CountLogSum(s, {s[i] : i \in 1..n})) \div n

\* lines 73-81: the base confidence of a pattern
BaseConfidence(ftype) ==
    CASE ftype = "PRIVATE_KEY_BLOCK"   -> 95
      [] ftype = "AWS_ACCESS_KEY_ID"   -> 85
      [] ftype = "GITHUB_TOKEN"        -> 85
      [] ftype = "JWT"                 -> 70
      [] ftype = "CONNECTION_STRING"   -> 80
      [] ftype = "AUTH_HEADER"         -> 75
      [] ftype = "PASSWORD_ASSIGNMENT" -> 65
      [] OTHER                         -> 60

\* lines 83-92
LeakConfidence(ftype, value, has_ctx) ==
    LET ent   == shannon_entropy(value)
        conf1 == BaseConfidence(ftype) + (IF has_ctx THEN 10 ELSE 0)
        conf2 == IF Len(value) >= 12
                    THEN (IF ent >= 3500000 THEN conf1 + 10
                          ELSE IF ent < 2800000 THEN conf1 - 10
                          ELSE conf1)
                    ELSE conf1
    IN  Max2(0, Min2(100, conf2))

\* the character U+2026
Ellipsis == "..."

\* mask_secret(s, keep_prefix=4, keep_suffix=4)
\* (mutation: the test for a short value left out)
MaskMutNoShortForm(s) ==
    SubSeq(s, 1, Min2(4, Len(s))) \o <<Ellipsis>>
        \o SubSeq(s, Max2(1, Len(s) - 3), Len(s))
\* (mutation: a value of 10 characters not taken for a short one)
MaskMutShortBelow10(s) ==
    IF Len(s) < 4 + 4 + 2
       THEN SubSeq(s, 1, Min2(1, Len(s))) \o <<Ellipsis>>
                \o SubSeq(s, Max2(1, Len(s)), Len(s))
       ELSE SubSeq(s, 1, 4) \o <<Ellipsis>> \o SubSeq(s, Len(s) - 3, Len(s))
mask_secret(s) ==
    IF Len(s) <= 4 + 4 + 2
       THEN SubSeq(s, 1, Min2(1, Len(s))) \o <<Ellipsis>>
                \o SubSeq(s, Max2(1, Len(s)), Len(s))
       ELSE SubSeq(s, 1, 4) \o <<Ellipsis>> \o SubSeq(s, Len(s) - 3, Len(s))

\* lines 94-96 and 101: the text around the match, newlines made spaces
Evidence(text, start, end) ==
    LET snippet_left  == Max2(0, start - 40)
        snippet_right == Min2(Len(text), end + 40)
        raw           == Slice(text, snippet_left, snippet_right)
        evidence      == [i \in 1..Len(raw) |-> IF raw[i] = "\n" THEN " " ELSE raw[i]]
    IN  SubSeq(evidence, 1, Min2(240, Len(evidence)))

\* lines 61-103: the finding for one match m of a pattern in a text; the
\* value is the whole match, or the group after the key word
FindingOf(m) ==
    LET value == Slice(m.text, m.vstart, m.end)
    IN  [type         |-> m.ftype,
         confidence   |-> LeakConfidence(m.ftype, value,
                              context_has_keywords(m.text, m.start, m.end)),
         evidence     |-> Evidence(m.text, m.start, m.end),
         masked_value |-> mask_secret(value)]

\* leak_detector on a text with one match
Detect ==
    /\ dpc = "ready"
    /\ detected' = Some(FindingOf(secret[1]))
    /\ dpc' = "done"
    /\ UNCHANGED secret

\* Matches of LEAK_PATTERNS: the matched text, and where the value starts
AwsKey ==
    [ftype |-> "AWS_ACCESS_KEY_ID", voff |-> 0, raw |-> <<"A", "K", "I",
    "A", "1", "2", "3", "4", "5", "6", "7", "8", "9", "0", "A", "B", "C",
    "D", "1", "2">>]

AwsKeyFlat ==
    [ftype |-> "AWS_ACCESS_KEY_ID", voff |-> 0, raw |-> <<"A", "K", "I",
    "A", "A", "A", "A", "A", "A", "A", "A", "A", "A", "A", "A", "A", "A",
    "A", "A", "A">>]

ShortPwd ==
    [ftype |-> "PASSWORD_ASSIGNMENT", voff |-> 4, raw |-> <<"p", "w", "d",
    "=", "h", "u", "n", "t", "e", "r">>]

FlatPwd ==
    [ftype |-> "PASSWORD_ASSIGNMENT", voff |-> 4, raw |-> <<"p", "w", "d",
    "=", "a", "a", "a", "a", "a", "a", "a", "a", "a", "a", "a", "a">>]

EdgePwd ==
    [ftype |-> "PASSWORD_ASSIGNMENT", voff |-> 10, raw |-> <<"p", "a", "s",
    "s", "w", "o", "r", "d", ":", " ", "a", "b", "c", "d", "e", "f", "g",
    "h", "i", "i", "j", "j", "k", "k", "l", "l">>]

MidPwd ==
    [ftype |-> "PASSWORD_ASSIGNMENT", voff |-> 7, raw |-> <<"p", "a", "s",
    "s", "w", "d", "=", "a", "a", "b", "b", "c", "c", "d", "d", "e", "e",
    "f", "f", "g", "g", "h", "h">>]

UpperPwd ==
    [ftype |-> "PASSWORD_ASSIGNMENT", voff |-> 4, raw |-> <<"P", "W", "D",
    "=", "a", "b", "c", "d", "e", "f", "g", "h", "i", "j", "k">>]

AuthHeader ==
    [ftype |-> "AUTH_HEADER", voff |-> 22, raw |-> <<"A", "u", "t", "h",
    "o", "r", "i", "z", "a", "t", "i", "o", "n", ":", " ", "B", "e", "a",
    "r", "e", "r", " ", "a", "b", "c", "d", "e", "f", "1", "2", "3", "4">>]

Jwt ==
    [ftype |-> "JWT", voff |-> 0, raw |-> <<"e", "y", "J", "h", "b", "G",
    "c", "i", "O", "i", "J", "I", "U", "z", "I", "1", ".", "e", "y", "J",
    "z", "d", "W", "I", "i", "O", "i", "I", "x", "M", "j", "M", "0", ".",
    "S", "f", "l", "K", "x", "w", "R", "J", "S", "M", "e", "K", "K", "F",
    "2", "Q">>]

GithubToken ==
    [ftype |-> "GITHUB_TOKEN", voff |-> 0, raw |-> <<"g", "h", "p", "_",
    "a", "b", "c", "d", "e", "f", "g", "h", "i", "j", "k", "l", "m", "n",
    "o", "p", "q", "r", "s", "t", "u", "v", "w", "x", "y", "z", "0", "1",
    "2", "3">>]

PrivateKey ==
    [ftype |-> "PRIVATE_KEY_BLOCK", voff |-> 0, raw |-> <<"-", "-", "-",
    "-", "-", "B", "E", "G", "I", "N", " ", "P", "R", "I", "V", "A", "T",
    "E", " ", "K", "E", "Y", "-", "-", "-", "-", "-", "M", "I", "I", "B",
    "-", "-", "-", "-", "-", "E", "N", "D", " ", "P", "R", "I", "V", "A",
    "T", "E", " ", "K", "E", "Y", "-", "-", "-", "-", "-">>]

ConnString ==
    [ftype |-> "CONNECTION_STRING", voff |-> 0, raw |-> <<"m", "y", "s",
    "q", "l", ":", "/", "/", "u", ":", "p", "@", "h">>]

ConnStringPwd ==
    [ftype |-> "CONNECTION_STRING", voff |-> 0, raw |-> <<"p", "o", "s",
    "t", "g", "r", "e", "s", ":", "/", "/", "a", "p", "p", ":", "p", "a",
    "s", "s", "w", "o", "r", "d", "@", "d", "b">>]

PatternMatches ==
    { AwsKey, AwsKeyFlat, ShortPwd, FlatPwd, EdgePwd, MidPwd, UpperPwd, AuthHeader, Jwt, GithubToken, PrivateKey, ConnString, ConnStringPwd }

\* What stands around a match
Spaces(n) == [i \in 1..n |-> " "]

Contexts ==
    { [pre |-> <<>>, post |-> <<>>],
      [pre |-> <<"t", "o", "k", "e", "n", "\n">>, post |-> <<>>],
      [pre |-> <<"T", "O", "K", "E", "N", " ">>, post |-> <<>>],
      [pre |-> <<"s", "e", "c", "r", "e", "t">> \o Spaces(34), post |-> <<>>],
      [pre |-> <<"s", "e", "c", "r", "e", "t">> \o Spaces(35), post |-> <<>>],
      [pre |-> <<>>, post |-> Spaces(34) \o <<"s", "e", "c", "r", "e", "t">>],
      [pre |-> <<>>, post |-> Spaces(35) \o <<"s", "e", "c", "r", "e", "t">>] }

MatchIn(c, p) ==
    [text   |-> c.pre \o p.raw \o c.post,
     ftype  |-> p.ftype,
     start  |-> Len(c.pre),
     end    |-> Len(c.pre) + Len(p.raw),
     vstart |-> Len(c.pre) + p.voff]

\* Password values of every length from the 6 characters the pattern asks
\* for up to MaxSecretLen, all characters different
MaxSecretLen == 14

Alphabet ==
    <<"a", "b", "c", "d", "e", "f", "g", "h", "i", "j", "k", "l", "m", "n",
      "o", "p">>

PasswordValues ==
    { SubSeq(Alphabet, w[1], w[1] + w[2] - 1) :
        w \in {x \in (1..Len(Alphabet)) \X (6..MaxSecretLen) :
                  x[1] + x[2] - 1 <= Len(Alphabet)} }

PasswordOf(v) ==
    [ftype |-> "PASSWORD_ASSIGNMENT", voff |-> 4,
     raw |-> <<"p", "w", "d", "=">> \o v]

LeakInputs ==
    { MatchIn(c, p) : c \in Contexts, p \in PatternMatches }
    \cup { MatchIn([pre |-> <<>>, post |-> <<>>], PasswordOf(v)) :
             v \in PasswordValues }

\* LEAK_PATTERNS, in the order leak_detector goes through them
PatternOrder ==
    << "AWS_ACCESS_KEY_ID", "GITHUB_TOKEN", "JWT", "PRIVATE_KEY_BLOCK",
       "PASSWORD_ASSIGNMENT", "AUTH_HEADER", "CONNECTION_STRING" >>

PatternIndex(t) == CHOOSE i \in 1..Len(PatternOrder) : PatternOrder[i] = t

\* A bearer header whose token is a JWT: the AUTH_HEADER pattern matches the
\* whole of it and the JWT pattern matches the token.
BearerJwt ==
    [ftype |-> "AUTH_HEADER", voff |-> 22,
     raw |-> SubSeq(AuthHeader.raw, 1, 22) \o Jwt.raw]

\* The matches inside one piece of text: pattern, where the match starts in
\* the piece and where its value starts; every match ends where the piece ends.
MatchesInPiece(p) ==
    IF p = BearerJwt
       THEN { [ftype |-> "AUTH_HEADER", off |-> 0, voff |-> 22],
              [ftype |-> "JWT", off |-> 22, voff |-> 22] }
       ELSE { [ftype |-> p.ftype, off |-> 0, voff |-> p.voff] }

\* A text laid out as pieces with the same number of spaces between them,
\* after a number of spaces
RECURSIVE JoinPieces(_, _)
JoinPieces(pieces, gap) ==
    IF pieces = <<>> THEN <<>>
    ELSE IF Len(pieces) = 1 THEN pieces[1].raw
    ELSE pieces[1].raw \o Spaces(gap) \o JoinPieces(Tail(pieces), gap)

LayoutText(l) == Spaces(l.pre) \o JoinPieces(l.pieces, l.gap)

PieceStart(l, i) == Len(Spaces(l.pre) \o JoinPieces(SubSeq(l.pieces, 1, i), l.gap)) - Len(l.pieces[i].raw)

\* pat.finditer(text) for each pattern in turn: the matches of the first
\* pattern from left to right, then those of the second, and so on
RECURSIVE InScanOrder(_)
InScanOrder(ms) ==
    IF ms = {} THEN <<>>
    ELSE LET m == CHOOSE x \in ms : \A y \in ms :
                      \/ PatternIndex(x.ftype) < PatternIndex(y.ftype)
                      \/ /\ PatternIndex(x.ftype) = PatternIndex(y.ftype)
                         /\ x.start <= y.start
         IN  <<m>> \o InScanOrder(ms \ {m})

MatchesOf(l) ==
    InScanOrder(UNION { { [text   |-> LayoutText(l),
                           ftype  |-> m.ftype,
                           start  |-> PieceStart(l, i) + m.off,
                           end    |-> PieceStart(l, i) + Len(l.pieces[i].raw),
                           vstart |-> PieceStart(l, i) + m.voff] :
                          m \in MatchesInPiece(l.pieces[i]) } :
                        i \in 1..Len(l.pieces) })

\* lines 105-111: the key of a finding, and the findings whose key was not
\* seen before, in their order
FindingKey(f) ==
    << f.type, f.masked_value, SubSeq(f.evidence, 1, Min2(60, Len(f.evidence))) >>

RECURSIVE Uniq(_, _)
Uniq(fs, seen) ==
    IF fs = <<>> THEN <<>>
    ELSE LET key == FindingKey(Head(fs))
         IN  IF key \in seen
                THEN Uniq(Tail(fs), seen)
                ELSE <<Head(fs)>> \o Uniq(Tail(fs), seen \cup {key})

\* leak_detector(text), given the matches of the patterns in the text
leak_detector(ms) == Uniq([i \in 1..Len(ms) |-> FindingOf(ms[i])], {})

\* leak_detector on a text with several matches
DetectAll ==
    /\ dpc = "scan"
    /\ detected' = Some(leak_detector(secret[1].matches))
    /\ dpc' = "scanned"
    /\ UNCHANGED secret

\* Texts with two or three secrets
ScanPieces == { AwsKey, ShortPwd, UpperPwd, ConnString, BearerJwt }

ScanGaps == { 1, 50, 90 }

ScanLeads == { 0, 45 }

ScanLayouts ==
    { [pre |-> n, gap |-> g, pieces |-> ps] :
        n \in ScanLeads, g \in ScanGaps,
        ps \in { <<a, b>> : a \in ScanPieces, b \in ScanPieces }
               \cup { <<a, b, a>> : a \in ScanPieces, b \in {ShortPwd, ConnString} } }

ScanInputs == { [text |-> LayoutText(l), matches |-> MatchesOf(l)] : l \in ScanLayouts }

-----------------------------------------------------------------------------
(* ml/detectors.py: entity_extractor, and ml/ioc_extractor.py: extract_iocs *)
(* A text is a sequence of tokens with white space between them; no pattern *)
(* of the two extractors matches across white space.  A token is held as    *)
(* what each pattern finds in it, from left to right.                       *)

\* "10.0.0.5"
AddressToken ==
    [ips |-> <<<<"1", "0", ".", "0", ".", "0", ".", "5">>>>, emails |->
    <<>>, urls |-> <<>>, domains |-> <<>>, cves |-> <<>>]

\* "admin@example.com"
MailboxToken ==
    [ips |-> <<>>, emails |-> <<<<"a", "d", "m", "i", "n", "@", "e", "x",
    "a", "m", "p", "l", "e", ".", "c", "o", "m">>>>, urls |-> <<>>, domains
    |-> <<<<"e", "x", "a", "m", "p", "l", "e", ".", "c", "o", "m">>>>, cves
    |-> <<>>]

\* "example.com"
HostToken ==
    [ips |-> <<>>, emails |-> <<>>, urls |-> <<>>, domains |-> <<<<"e", "x",
    "a", "m", "p", "l", "e", ".", "c", "o", "m">>>>, cves |-> <<>>]

\* "http://evil.example/a.zip"
LinkToken ==
    [ips |-> <<>>, emails |-> <<>>, urls |-> <<<<"h", "t", "t", "p", ":",
    "/", "/", "e", "v", "i", "l", ".", "e", "x", "a", "m", "p", "l", "e",
    "/", "a", ".", "z", "i", "p">>>>, domains |-> <<<<"e", "v", "i", "l",
    ".", "e", "x", "a", "m", "p", "l", "e">>, <<"a", ".", "z", "i", "p">>>>,
    cves |-> <<>>]

\* "dump.zip"
ArchiveToken ==
    [ips |-> <<>>, emails |-> <<>>, urls |-> <<>>, domains |-> <<<<"d", "u",
    "m", "p", ".", "z", "i", "p">>>>, cves |-> <<>>]

\* "Report.PDF"
ReportToken ==
    [ips |-> <<>>, emails |-> <<>>, urls |-> <<>>, domains |-> <<<<"R", "e",
    "p", "o", "r", "t", ".", "P", "D", "F">>>>, cves |-> <<>>]

\* "backup.tar.gz"
TarballToken ==
    [ips |-> <<>>, emails |-> <<>>, urls |-> <<>>, domains |-> <<<<"b", "a",
    "c", "k", "u", "p", ".", "t", "a", "r", ".", "g", "z">>>>, cves |->
    <<>>]

\* "CVE-2021-44228"
CveToken ==
    [ips |-> <<>>, emails |-> <<>>, urls |-> <<>>, domains |-> <<>>, cves
    |-> <<<<"C", "V", "E", "-", "2", "0", "2", "1", "-", "4", "4", "2", "2",
    "8">>>>]

file_like_ext ==
    { <<".", "j", "s", "o", "n">>,
      <<".", "t", "x", "t">>,
      <<".", "p", "n", "g">>,
      <<".", "j", "p", "g">>,
      <<".", "j", "p", "e", "g">>,
      <<".", "p", "d", "f">>,
      <<".", "z", "i", "p">>,
      <<".", "t", "a", "r">>,
      <<".", "g", "z">>,
      <<".", "m", "p", "4">> }

Tokens ==
    { AddressToken, MailboxToken, HostToken, LinkToken, ArchiveToken,
      ReportToken, TarballToken, CveToken }

\* pattern.findall(text): what the pattern finds in each token in turn
RECURSIVE FindAll(_, _)
FindAll(toks, pattern) ==
    IF toks = <<>> THEN <<>>
    ELSE Head(toks)[pattern] \o FindAll(Tail(toks), pattern)

\* s.endswith(ext)
EndsWith(s, ext) ==
    /\ Len(s) >= Len(ext)
    /\ SubSeq(s, Len(s) - Len(ext) + 1, Len(s)) = ext

\* lines 135-137 of detectors.py
FileLike(dom) == \E ext \in file_like_ext : EndsWith(lower(dom), ext)

Tagged(kind, values) == [i \in 1..Len(values) |-> [kind |-> kind, value |-> values[i]]]

\* lines 140-147 of detectors.py
RECURSIVE UniqEntities(_, _)
UniqEntities(out, seen) ==
    IF out = <<>> THEN <<>>
    ELSE IF Head(out) \in seen
            THEN UniqEntities(Tail(out), seen)
            ELSE <<Head(out)>> \o UniqEntities(Tail(out), seen \cup {Head(out)})

\* entity_extractor(text)
entity_extractor(toks) ==
    LET NotFileLike(dom) == ~FileLike(dom)
        out == Tagged("ip", FindAll(toks, "ips"))
               \o Tagged("email", FindAll(toks, "emails"))
               \o Tagged("url", FindAll(toks, "urls"))
               \o Tagged("domain", SelectSeq(FindAll(toks, "domains"), NotFileLike))
    IN  UniqEntities(out, {})

\* list(set(values)): the distinct values, in an order the run decides
ListOfSet(values) ==
    LET S == {values[i] : i \in 1..Len(values)}
    IN  { l \in [1..Cardinality(S) -> S] : {l[i] : i \in 1..Cardinality(S)} = S }

\* extract_iocs(text): every list it may return
extract_iocs(toks) ==
    { [cves |-> c, ips |-> i, domains |-> d, emails |-> e] :
        c \in ListOfSet(FindAll(toks, "cves")),
        i \in ListOfSet(FindAll(toks, "ips")),
        d \in ListOfSet(FindAll(toks, "domains")),
        e \in ListOfSet(FindAll(toks, "emails")) }

\* Texts of up to MaxTokens tokens, and what build_alert gets for them: the
\* entities, the indicators in one of their orders, and a severity for each
\* CVE id from either end of what enrich_cves draws.
MaxTokens == 2

TokenTexts == SeqsUpTo(Tokens, MaxTokens)

ExtractInput(toks, iocs, cvss) ==
    PipelineInput([label |-> "discussion", confidence |-> 55],
                  << [label |-> "other", confidence |-> 40] >>,
                  NoHits, <<>>,
                  [vuln_features |-> None, vuln_pipe |-> "ok", vr_pred |-> 50],
                  [entities |-> entity_extractor(toks),
                   iocs |-> iocs,
                   cvss |-> [i \in 1..Len(iocs.cves) |-> cvss]],
                  1)

ExtractInputs ==
    UNION { { ExtractInput(toks, o, s) : o \in extract_iocs(toks), s \in {60, 98} } :
            toks \in TokenTexts }

-----------------------------------------------------------------------------
(* ml/pipeline.py and ml/infer.py: the models of a server process *)
(* One process serves ingest calls for new content one after the other.    *)

\* infer.py lines 184-186: the label list of the wrap once
\* _predict_single_label has returned
LabelsAfterPredict(w) ==
    LET proba == IF PipeHasProba(w) /\ PipePredictProba(w).ok
                    THEN Some(PipePredictProba(w).v) ELSE None
    IN  IF proba # None /\ w.labels # <<>> /\ Len(proba[1]) = Len(w.labels)
           THEN w.labels
        ELSE IF PipeHasDecision(w) /\ PipeDecisionFunction(w).ok /\ w.labels = <<>>
           THEN ClassLabels(Len(PipeDecisionFunction(w).v))
        ELSE w.labels

\* pipeline_store.py lines 25-43: a call with content not yet stored commits
\* its post
ServeInsert ==
    /\ spc \in {"idle", "load failed", "predict failed"}
    /\ served < MaxCalls
    /\ served' = served + 1
    /\ stored' = stored + 1
    /\ spc' = "committed"
    /\ UNCHANGED <<artifact, models, loads>>

\* pipeline.py line 176 and infer.py lines 113-127: build_alert makes a
\* NorthStarModels object, which loads the bundles or raises FileNotFoundError
LoadModels ==
    /\ spc = "committed"
    /\ IF artifact = None
          THEN /\ spc' = "load failed"
               /\ UNCHANGED <<models, loads>>
          ELSE /\ models' = artifact
               /\ loads' = loads + 1
               /\ spc' = "loaded"
    /\ UNCHANGED <<artifact, stored, served>>

\* pipeline.py line 178: predict_all on the object; an exception of the
\* classifier ends the call
PredictAll ==
    /\ spc = "loaded"
    /\ IF _predict_top_sectors(models[1], 3).kind = "raised"
          THEN /\ models' = None
               /\ spc' = "predict failed"
          ELSE /\ models' = Some([models[1] EXCEPT !.labels = LabelsAfterPredict(models[1])])
               /\ spc' = "predicted"
    /\ UNCHANGED <<artifact, loads, stored, served>>

\* pipeline.py line 286: build_alert returns and its models object is dropped
DropModels ==
    /\ spc = "predicted"
    /\ models' = None
    /\ spc' = "idle"
    /\ UNCHANGED <<artifact, loads, stored, served>>

-----------------------------------------------------------------------------
(* backend/app/main.py: collect_run, and backend/app/scheduler.py:          *)
(* ingest_demo_feed_once                                                    *)
(* The run is worker 1 of the ingestion gate; it calls                      *)
(* upsert_post_and_alert for one item after the other.                      *)

Runner == 1

\* main.py lines 153-154, scheduler.py lines 28-29: the counters start at 0
RunStart ==
    /\ rpc \in {"idle", "done", "aborted"}
    /\ pc[Runner] = "idle"
    /\ todo' = items
    /\ inserted_posts' = 0
    /\ created_alerts' = 0
    /\ base' = [posts |-> Cardinality(posts), alerts |-> Cardinality(alerts)]
    /\ rpc' = "next"
    /\ UNCHANGED <<items, feed_kind>>

\* main.py line 178, scheduler.py line 41: the call for the next item
RunUpsert ==
    /\ rpc = "next"
    /\ todo # <<>>
    /\ Call(Runner, Head(todo))
    /\ todo' = Tail(todo)
    /\ rpc' = "call"
    /\ UNCHANGED <<items, feed_kind, inserted_posts, created_alerts, base>>

\* The steps of the call in progress
RunGate ==
    /\ rpc = "call"
    /\ \/ ReturnExisting(Runner)
       \/ InsertPost(Runner)
       \/ PipelineRaises(Runner)
       \/ StoreAlert(Runner)
    /\ UNCHANGED runVars

\* main.py lines 189-194, scheduler.py lines 52-54: count the item.  An
\* exception of the call ends the source in collect_run, where it is caught,
\* and the whole run in ingest_demo_feed_once, where it is not.
Counts(r) ==
    /\ r.kind = "returned"
    /\ IF feed_kind = "collect" THEN r.alert_id # -1 ELSE TRUE

RunTally ==
    /\ rpc = "call"
    /\ pc[Runner] = "idle"
    /\ result[Runner] # None
    /\ LET r == result[Runner][1]
       IN  /\ inserted_posts' = inserted_posts + (IF Counts(r) THEN 1 ELSE 0)
           /\ created_alerts' = created_alerts + (IF Counts(r) THEN 1 ELSE 0)
           /\ IF r.kind = "raised"
                 THEN IF feed_kind = "collect"
                         THEN todo' = <<>> /\ rpc' = "next"
                         ELSE todo' = todo /\ rpc' = "aborted"
                 ELSE todo' = todo /\ rpc' = "next"
    /\ UNCHANGED <<gateVars, items, feed_kind, base>>

\* main.py lines 196-200, scheduler.py line 56: the statistics are reported
RunEnd ==
    /\ rpc = "next"
    /\ todo = <<>>
    /\ rpc' = "done"
    /\ UNCHANGED <<gateVars, items, todo, feed_kind, inserted_posts, created_alerts, base>>

\* Feeds of up to MaxItems items
MaxItems == 2

Feeds == SeqsUpTo(Requests, MaxItems) \ {<<>>}

-----------------------------------------------------------------------------
(* The fetch of a page with retries: collector.py, _http_get *)

\* What one requests.get gives: an exception of the transport, or a response
\* with a status and a text.
NoAnswer == [raised |-> "", status |-> 0, text |-> ""]

Answers ==
    {[raised |-> "", status |-> 200, text |-> "page"],
     [raised |-> "", status |-> 200, text |-> ""],
     [raised |-> "", status |-> 404, text |-> "missing"],
     [raised |-> "", status |-> 503, text |-> "busy"],
     [raised |-> "Timeout", status |-> 0, text |-> ""],
     [raised |-> "ConnectionError", status |-> 0, text |-> ""]}

\* The exception one attempt ends with, or None: requests.get raises, or
\* raise_for_status raises HTTPError for a status from 400 to 599.
Failure(a) ==
    IF a.raised # "" THEN Some([type |-> a.raised, status |-> 0])
    ELSE IF a.status >= 400 /\ a.status < 600
         THEN Some([type |-> "HTTPError", status |-> a.status])
         ELSE None

\* time.sleep(1.0 + i * 1.5), in tenths of a second
Backoff(k) == 10 + k * 15

\* if i < retries: sleep; else: raise last_err
\* (mutation: the call sleeps after every failed attempt)
SleepsAfterMutAlways(k, n) == k <= n
SleepsAfter(k, n) == k < n

MaxRetries == 2

\* _http_get(url, timeout=timeout, retries=n)
HttpCall ==
    /\ hpc = "idle"
    /\ \E n \in 0..MaxRetries : retries' = n
    /\ attempt' = 0
    /\ hpc' = "loop"
    /\ UNCHANGED <<last_err, events, outcome>>

\* One turn of "for i in range(retries + 1)": the request, and what follows
\* it. After the turn of the last index the loop ends and the function
\* returns None.
HttpAttempt ==
    /\ hpc = "loop"
    /\ attempt < retries + 1
    /\ \E a \in Answers :
        LET e     == Failure(a)
            got   == [ev |-> "get", got |-> a, secs |-> 0]
            slept == [ev |-> "sleep", got |-> NoAnswer, secs |-> Backoff(attempt)]
        IN  IF e = None
            THEN /\ outcome' = Some([kind |-> "returned", text |-> a.text, error |-> None])
                 /\ events' = Append(events, got)
                 /\ hpc' = "done"
                 /\ UNCHANGED <<last_err, attempt>>
            ELSE /\ last_err' = e
                 /\ IF SleepsAfter(attempt, retries)
                    THEN /\ events' = events \o <<got, slept>>
                         /\ attempt' = attempt + 1
                         /\ IF attempt + 1 < retries + 1
                            THEN hpc' = "loop" /\ UNCHANGED outcome
                            ELSE /\ outcome' = Some([kind |-> "none", text |-> "", error |-> None])
                                 /\ hpc' = "done"
                    ELSE /\ outcome' = Some([kind |-> "raised", text |-> "", error |-> e])
                         /\ events' = Append(events, got)
                         /\ hpc' = "done"
                         /\ UNCHANGED attempt
    /\ UNCHANGED retries

-----------------------------------------------------------------------------
(* The alert stream and the writers it reads after: main.py, alerts_stream *)

MaxAlerts == 4

\* DB_URL is the SQLite file of the repository unless the environment names
\* another database. SQLite gives the database to one writer from its first
\* INSERT to its COMMIT; a database server lets writers overlap.
DbKinds == {"sqlite", "server"}

\* order_by(Alert.id.asc())
RECURSIVE OrderByIdAsc(_)
OrderByIdAsc(S) ==
    IF S = {} THEN <<>>
    ELSE LET m == CHOOSE x \in S : \A y \in S : x <= y
         IN  <<m>> \o OrderByIdAsc(S \ {m})

\* select(Alert).where(Alert.id > last_id).order_by(Alert.id.asc())
NewAlerts == OrderByIdAsc({k \in visible : k > last_id})

\* session.add(a); session.commit(), first half: the flush sends the INSERT
\* and the row gets the next id.
InsertAlert ==
    /\ next_id <= MaxAlerts
    /\ db_kind = "sqlite" => pending = {}
    /\ pending' = pending \cup {next_id}
    /\ next_id' = next_id + 1
    /\ UNCHANGED <<db_kind, visible, last_id, emitted, stpc>>

\* session.commit(), second half: the COMMIT makes the row visible to the
\* other sessions.
CommitAlert ==
    /\ \E k \in pending :
        /\ pending' = pending \ {k}
        /\ visible' = visible \cup {k}
    /\ UNCHANGED <<db_kind, next_id, last_id, emitted, stpc>>

\* GET /alerts/stream: last_id = 0 and the hello event
Connect ==
    /\ stpc = "closed"
    /\ last_id' = 0
    /\ emitted' = <<>>
    /\ stpc' = "open"
    /\ UNCHANGED <<db_kind, next_id, pending, visible>>

\* One turn of "while True": the query, and for each row of its answer
\* last_id = a.id and an alert event.
Poll ==
    /\ stpc = "open"
    /\ emitted' = emitted \o NewAlerts
    /\ last_id' = IF NewAlerts = <<>> THEN last_id ELSE NewAlerts[Len(NewAlerts)]
    /\ UNCHANGED <<db_kind, next_id, pending, visible, stpc>>

-----------------------------------------------------------------------------
(* The dedup key of two ingests: pipeline_store.py, _hash *)

MaxKeyLen == 2

\* Sources and urls are any strings; here those over a letter and the bar.
KeyStrings == SeqsUpTo({"s", "|"}, MaxKeyLen)

KeyTexts == {<<"t">>, <<" ", "t">>, <<"t", "t">>}

KeyCalls == [source : KeyStrings, url : KeyStrings, text : KeyTexts]

\* h = _hash(source, url, text), in each of the two calls
HashBoth ==
    /\ kpc = "ready"
    /\ hashes' = Some(<<_hash(left_call.source, left_call.url, left_call.text),
                        _hash(right_call.source, right_call.url, right_call.text)>>)
    /\ kpc' = "hashed"
    /\ UNCHANGED <<left_call, right_call>>

-----------------------------------------------------------------------------
(* One run of the pipeline on its own *)

BuildAlert ==
    /\ apc = "ready"
    /\ alert' = Some(build_alert(inp))
    /\ apc' = "built"
    /\ UNCHANGED inp

\* cve_enricher.py line 9: round(random.uniform(6.0, 9.8), 1), in tenths; the
\* two ends and a value between
CvssDraws == {60, 75, 98}

\* build_alert called again on the same text and features: the classifiers
\* and extractors answer as before, enrich_cves draws anew
BuildAlertAgain ==
    /\ apc = "built"
    /\ \E c \in [1..Len(inp.iocs.cves) -> CvssDraws] :
          alert' = Append(alert, build_alert([inp EXCEPT !.cvss = c]))
    /\ apc' = "twice"
    /\ UNCHANGED inp

\* Texts with no, one or two CVE ids, with what enrich_cves drew for them
TwiceIocChoices ==
    { [entities |-> <<>>,
       iocs |-> [cves |-> l, ips |-> <<>>, domains |-> <<>>, emails |-> <<>>],
       cvss |-> c] :
        l \in { <<>>, <<"CVE-2021-44228">>, <<"CVE-2021-44228", "CVE-2014-0160">> },
        c \in UNION {[1..k -> CvssDraws] : k \in 0..2} }

TwiceInputs ==
    { x \in { PipelineInput(i, << [label |-> "other", confidence |-> 40] >>,
                            NoHits, <<>>, v, k, a) :
                i \in IntentChoices, v \in VulnChoices, k \in TwiceIocChoices,
                a \in {0, 1} } :
        Len(x.cvss) = Len(x.iocs.cves) }

-----------------------------------------------------------------------------
(* Specifications *)

GateInit ==
    /\ posts = {}
    /\ alerts = {}
    /\ findings = {}
    /\ entities = {}
    /\ pc = [w \in Workers |-> "idle"]
    /\ args = [w \in Workers |-> None]
    /\ local = [w \in Workers |-> NoLocal]
    /\ result = [w \in Workers |-> None]
    /\ ran = [w \in Workers |-> FALSE]
    /\ calls = 0

\* no pipeline run on its own
AlertOff ==
    /\ inp = None
    /\ alert = None
    /\ apc = "off"

\* no classifier call on its own
ClassifyOff ==
    /\ wrap = None
    /\ prediction = None
    /\ cpc = "off"

\* no detector call on its own
DetectOff ==
    /\ secret = None
    /\ detected = None
    /\ dpc = "off"

\* no server process on its own
ServeOff ==
    /\ artifact = None
    /\ models = None
    /\ loads = 0
    /\ stored = 0
    /\ served = 0
    /\ spc = "off"

\* no ingestion run on its own
RunOff ==
    /\ items = <<>>
    /\ todo = <<>>
    /\ feed_kind = ""
    /\ inserted_posts = 0
    /\ created_alerts = 0
    /\ base = [posts |-> 0, alerts |-> 0]
    /\ rpc = "off"

\* no fetch on its own
HttpOff ==
    /\ retries = 0
    /\ attempt = 0
    /\ last_err = None
    /\ events = <<>>
    /\ outcome = None
    /\ hpc = "off"

\* no alert stream on its own
StreamOff ==
    /\ db_kind = ""
    /\ next_id = 0
    /\ pending = {}
    /\ visible = {}
    /\ last_id = 0
    /\ emitted = <<>>
    /\ stpc = "off"

\* no pair of dedup keys on its own
HashOff ==
    /\ left_call = <<>>
    /\ right_call = <<>>
    /\ hashes = None
    /\ kpc = "off"

\* the store and its workers
Init ==
    /\ GateInit
    /\ AlertOff
    /\ ClassifyOff
    /\ DetectOff
    /\ ServeOff
    /\ RunOff
    /\ HttpOff
    /\ StreamOff
    /\ HashOff

Next ==
    \/ \E w \in Workers, r \in Requests : Call(w, r) /\ UNCHANGED <<alertVars, classifyVars, detectVars, serveVars, runVars, httpVars, streamVars, hashVars>>
    \/ \E w \in Workers : ReturnExisting(w) /\ UNCHANGED <<alertVars, classifyVars, detectVars, serveVars, runVars, httpVars, streamVars, hashVars>>
    \/ \E w \in Workers : InsertPost(w) /\ UNCHANGED <<alertVars, classifyVars, detectVars, serveVars, runVars, httpVars, streamVars, hashVars>>
    \/ \E w \in Workers : PipelineRaises(w) /\ UNCHANGED <<alertVars, classifyVars, detectVars, serveVars, runVars, httpVars, streamVars, hashVars>>
    \/ \E w \in Workers : StoreAlert(w) /\ UNCHANGED <<alertVars, classifyVars, detectVars, serveVars, runVars, httpVars, streamVars, hashVars>>

Spec == Init /\ [][Next]_vars

\* build_alert over its inputs
InitAlert ==
    /\ GateInit
    /\ inp \in PipelineInputs
    /\ alert = None
    /\ apc = "ready"
    /\ ClassifyOff
    /\ DetectOff
    /\ ServeOff
    /\ RunOff
    /\ HttpOff
    /\ StreamOff
    /\ HashOff

NextAlert == BuildAlert /\ UNCHANGED <<gateVars, classifyVars, detectVars, serveVars, runVars, httpVars, streamVars, hashVars>>

SpecAlert == InitAlert /\ [][NextAlert]_vars

\* build_alert over the inputs that exercise the scorer
InitScore ==
    /\ GateInit
    /\ inp \in ScoreInputs
    /\ alert = None
    /\ apc = "ready"
    /\ ClassifyOff
    /\ DetectOff
    /\ ServeOff
    /\ RunOff
    /\ HttpOff
    /\ StreamOff
    /\ HashOff

SpecScore == InitScore /\ [][NextAlert]_vars

\* build_alert over the inputs that exercise the sector override
InitOverride ==
    /\ GateInit
    /\ inp \in OverrideInputs
    /\ alert = None
    /\ apc = "ready"
    /\ ClassifyOff
    /\ DetectOff
    /\ ServeOff
    /\ RunOff
    /\ HttpOff
    /\ StreamOff
    /\ HashOff

SpecOverride == InitOverride /\ [][NextAlert]_vars

\* build_alert over the texts that exercise the two extractors
InitExtract ==
    /\ GateInit
    /\ inp \in ExtractInputs
    /\ alert = None
    /\ apc = "ready"
    /\ ClassifyOff
    /\ DetectOff
    /\ ServeOff
    /\ RunOff
    /\ HttpOff
    /\ StreamOff
    /\ HashOff

SpecExtract == InitExtract /\ [][NextAlert]_vars

\* build_alert run twice on the same text and features
InitTwice ==
    /\ GateInit
    /\ inp \in TwiceInputs
    /\ alert = None
    /\ apc = "ready"
    /\ ClassifyOff
    /\ DetectOff
    /\ ServeOff
    /\ RunOff
    /\ HttpOff
    /\ StreamOff
    /\ HashOff

NextTwice ==
    \/ BuildAlert /\ UNCHANGED <<gateVars, classifyVars, detectVars, serveVars, runVars, httpVars, streamVars, hashVars>>
    \/ BuildAlertAgain /\ UNCHANGED <<gateVars, classifyVars, detectVars, serveVars, runVars, httpVars, streamVars, hashVars>>

SpecTwice == InitTwice /\ [][NextTwice]_vars

\* the classifier interface over the model bundles
InitClassify ==
    /\ GateInit
    /\ AlertOff
    /\ wrap \in {Some(w) : w \in WrapInputs}
    /\ prediction = None
    /\ cpc = "ready"
    /\ DetectOff
    /\ ServeOff
    /\ RunOff
    /\ HttpOff
    /\ StreamOff
    /\ HashOff

NextClassify == Classify /\ UNCHANGED <<gateVars, alertVars, detectVars, serveVars, runVars, httpVars, streamVars, hashVars>>

SpecClassify == InitClassify /\ [][NextClassify]_vars

\* the leak detector over the matches
InitLeak ==
    /\ GateInit
    /\ AlertOff
    /\ ClassifyOff
    /\ secret \in {Some(m) : m \in LeakInputs}
    /\ detected = None
    /\ dpc = "ready"
    /\ ServeOff
    /\ RunOff
    /\ HttpOff
    /\ StreamOff
    /\ HashOff

NextLeak == Detect /\ UNCHANGED <<gateVars, alertVars, classifyVars, serveVars, runVars, httpVars, streamVars, hashVars>>

SpecLeak == InitLeak /\ [][NextLeak]_vars

\* the leak detector over texts with several matches
InitScan ==
    /\ GateInit
    /\ AlertOff
    /\ ClassifyOff
    /\ secret \in {Some(t) : t \in ScanInputs}
    /\ detected = None
    /\ dpc = "scan"
    /\ ServeOff
    /\ RunOff
    /\ HttpOff
    /\ StreamOff
    /\ HashOff

NextScan == DetectAll /\ UNCHANGED <<gateVars, alertVars, classifyVars, serveVars, runVars, httpVars, streamVars, hashVars>>

SpecScan == InitScan /\ [][NextScan]_vars

\* a server process over the bundles its model directory may hold
InitServe ==
    /\ GateInit
    /\ AlertOff
    /\ ClassifyOff
    /\ DetectOff
    /\ artifact \in {None} \cup {Some(w) : w \in WrapInputs}
    /\ models = None
    /\ loads = 0
    /\ stored = 0
    /\ served = 0
    /\ spc = "idle"
    /\ RunOff
    /\ HttpOff
    /\ StreamOff
    /\ HashOff

NextServe ==
    \/ ServeInsert /\ UNCHANGED <<gateVars, alertVars, classifyVars, detectVars, runVars, httpVars, streamVars, hashVars>>
    \/ LoadModels /\ UNCHANGED <<gateVars, alertVars, classifyVars, detectVars, runVars, httpVars, streamVars, hashVars>>
    \/ PredictAll /\ UNCHANGED <<gateVars, alertVars, classifyVars, detectVars, runVars, httpVars, streamVars, hashVars>>
    \/ DropModels /\ UNCHANGED <<gateVars, alertVars, classifyVars, detectVars, runVars, httpVars, streamVars, hashVars>>

SpecServe == InitServe /\ [][NextServe]_vars

\* ingestion runs over a feed, one after the other, on an empty store
InitRun ==
    /\ GateInit
    /\ AlertOff
    /\ ClassifyOff
    /\ DetectOff
    /\ ServeOff
    /\ items \in Feeds
    /\ todo = <<>>
    /\ feed_kind \in {"collect", "demo"}
    /\ inserted_posts = 0
    /\ created_alerts = 0
    /\ base = [posts |-> 0, alerts |-> 0]
    /\ rpc = "idle"
    /\ HttpOff
    /\ StreamOff
    /\ HashOff

NextRun ==
    \/ RunStart /\ UNCHANGED <<gateVars, alertVars, classifyVars, detectVars, serveVars, httpVars, streamVars, hashVars>>
    \/ RunUpsert /\ UNCHANGED <<alertVars, classifyVars, detectVars, serveVars, httpVars, streamVars, hashVars>>
    \/ RunGate /\ UNCHANGED <<alertVars, classifyVars, detectVars, serveVars, httpVars, streamVars, hashVars>>
    \/ RunTally /\ UNCHANGED <<alertVars, classifyVars, detectVars, serveVars, httpVars, streamVars, hashVars>>
    \/ RunEnd /\ UNCHANGED <<alertVars, classifyVars, detectVars, serveVars, httpVars, streamVars, hashVars>>

SpecRun == InitRun /\ [][NextRun]_vars

\* one fetch of a page
InitHttp ==
    /\ retries = 0
    /\ attempt = 0
    /\ last_err = None
    /\ events = <<>>
    /\ outcome = None
    /\ hpc = "idle"
    /\ GateInit
    /\ AlertOff
    /\ ClassifyOff
    /\ DetectOff
    /\ ServeOff
    /\ RunOff
    /\ StreamOff
    /\ HashOff

NextHttp ==
    \/ HttpCall /\ UNCHANGED <<gateVars, alertVars, classifyVars, detectVars, serveVars, runVars, streamVars, hashVars>>
    \/ HttpAttempt /\ UNCHANGED <<gateVars, alertVars, classifyVars, detectVars, serveVars, runVars, streamVars, hashVars>>

SpecHttp == InitHttp /\ [][NextHttp]_vars

\* one connection to the alert stream, and the ingests that run beside it;
\* the loop of the stream takes its next turn a second after the last
InitStream ==
    /\ GateInit
    /\ AlertOff
    /\ ClassifyOff
    /\ DetectOff
    /\ ServeOff
    /\ RunOff
    /\ HttpOff
    /\ db_kind \in DbKinds
    /\ next_id = 1
    /\ pending = {}
    /\ visible = {}
    /\ last_id = 0
    /\ emitted = <<>>
    /\ stpc = "closed"
    /\ HashOff

NextStream ==
    \/ InsertAlert /\ UNCHANGED <<gateVars, alertVars, classifyVars, detectVars, serveVars, runVars, httpVars, hashVars>>
    \/ CommitAlert /\ UNCHANGED <<gateVars, alertVars, classifyVars, detectVars, serveVars, runVars, httpVars, hashVars>>
    \/ Connect /\ UNCHANGED <<gateVars, alertVars, classifyVars, detectVars, serveVars, runVars, httpVars, hashVars>>
    \/ Poll /\ UNCHANGED <<gateVars, alertVars, classifyVars, detectVars, serveVars, runVars, httpVars, hashVars>>

SpecStream == InitStream /\ [][NextStream]_vars /\ WF_vars(Poll /\ UNCHANGED <<gateVars, alertVars, classifyVars, detectVars, serveVars, runVars, httpVars, hashVars>>)

\* two ingests and their dedup keys
InitHash ==
    /\ GateInit
    /\ AlertOff
    /\ ClassifyOff
    /\ DetectOff
    /\ ServeOff
    /\ RunOff
    /\ HttpOff
    /\ StreamOff
    /\ left_call \in KeyCalls
    /\ right_call \in KeyCalls
    /\ hashes = None
    /\ kpc = "ready"

NextHash ==
    \/ HashBoth /\ UNCHANGED <<gateVars, alertVars, classifyVars, detectVars, serveVars, runVars, httpVars, streamVars>>

SpecHash == InitHash /\ [][NextHash]_vars

-----------------------------------------------------------------------------
(* Properties of the ingestion gate, checked under Spec *)

\* The content that identifies an event: source, url and the trimmed text.
SameContent(r, row) ==
    /\ r.source = row.source
    /\ r.url = row.url
    /\ strip(r.text) = strip(row.text)

AlertIdsOf(post_id) == {a.id : a \in {o \in alerts : o.post_id = post_id}}

\* C1: a call whose (source, url, trimmed text) equals that of a stored post
\* takes the "already ingested" path, returns that post's id, does not run
\* build_alert and leaves the Post, Alert, Finding and Entity rows as they were.
C1_IdempotentIngest ==
    [][\A w \in Workers :
          /\ (/\ pc[w] = "idle"
              /\ pc'[w] # "idle"
              /\ \E row \in posts : SameContent(args'[w][1], row))
             => /\ pc'[w] = "existing"
                /\ SameContent(args'[w][1], local'[w].existing[1])
          /\ pc[w] = "existing" => pc'[w] \in {"existing", "idle"}
          /\ (pc[w] = "existing" /\ pc'[w] = "idle")
             => /\ result'[w] # None
                /\ result'[w][1].kind = "returned"
                /\ result'[w][1].post_id = local[w].existing[1].id
                /\ ~ran'[w]
                /\ UNCHANGED <<posts, alerts, findings, entities>>
      ]_vars

\* A worker came back from a call that repeated a stored post's content with
\* other whitespace, and got the post's id and its alert's id.
C1_Witness ==
    \E w \in Workers :
        /\ pc[w] = "idle"
        /\ result[w] # None
        /\ result[w][1].kind = "returned"
        /\ result[w][1].alert_id # -1
        /\ ~ran[w]
        /\ \E row \in posts :
              /\ row.id = result[w][1].post_id
              /\ row.text # args[w][1].text
              /\ SameContent(args[w][1], row)

\* C2: whenever no ingest call is in progress, every stored post has exactly
\* one alert.
C2_ExactlyOneAlertPerPost ==
    (\A w \in Workers : pc[w] = "idle")
        => \A row \in posts : Cardinality(AlertIdsOf(row.id)) = 1

\* C3: the store never holds two Post rows with the same content hash,
\* whatever the interleaving of the workers.
C3_UniqueHash ==
    \A p1 \in posts : \A p2 \in posts : p1.hash = p2.hash => p1 = p2

\* Two writers raced on the same content and the store refused the loser.
C3_Witness ==
    /\ \E w \in Workers :
          /\ result[w] # None
          /\ result[w][1].error = "IntegrityError"
    /\ posts # {}

\* C4: a call whose insert the store rejects for a duplicate hash returns the
\* existing post's id, with its alert id or the sentinel -1.
C4_ConflictIsRecoverable ==
    [][\A w \in Workers :
          (pc[w] = "insert" /\ pc'[w] = "idle")
             => /\ result'[w] # None
                /\ result'[w][1].kind = "returned"
                /\ \E row \in posts :
                      /\ row.hash = local[w].h
                      /\ result'[w][1].post_id = row.id
                /\ result'[w][1].alert_id \in AlertIdsOf(result'[w][1].post_id) \cup {-1}
      ]_vars

C6_DedupKeyOnly ==
    [][/\ \A row \in posts : row \in posts'
       /\ \A p1 \in posts' : \A p2 \in posts' : SameContent(p1, p2) => p1 = p2
      ]_vars

\* A second ingest of stored content, differing in title, author and
\* created_at, came back with the stored post, which kept its own.
C6_Witness ==
    \E w \in Workers :
        /\ pc[w] = "idle"
        /\ result[w] # None
        /\ result[w][1].kind = "returned"
        /\ ~ran[w]
        /\ \E row \in posts :
              /\ row.id = result[w][1].post_id
              /\ row.title # args[w][1].title
              /\ row.author # args[w][1].author
              /\ row.created_at # args[w][1].created_at
        /\ Cardinality({row \in posts : SameContent(args[w][1], row)}) = 1

-----------------------------------------------------------------------------
(* Properties of build_alert and score_threat, checked under SpecAlert *)

Categories == {"leak", "vulnerability", "attack_chatter", "discussion", "noise"}

\* C7: the alert's score lies in [0, 100], and in [0, 3] for a noise alert.
C7_ScoreBounds ==
    apc = "built" =>
        /\ alert[1].score >= 0
        /\ alert[1].score <= 100000
        /\ alert[1].category = "noise" => alert[1].score <= 3000

\* A noise alert whose contributions add up to 100 points or more.
C7_Witness ==
    /\ apc = "built"
    /\ alert[1].category = "noise"
    /\ Scored(inp).score = 100000
    /\ alert[1].score = 3000

\* C8: the category is the one the decision tree gives.
C8_CategoryTree ==
    apc = "built" =>
        LET c          == alert[1].category
            has_f      == inp.findings # <<>>
            has_v      == inp.vuln_features # None
            kw         == inp.attack_hits > 0
            conf       == inp.intent.confidence
            irrelevant == inp.intent.label = "irrelevant" /\ conf >= 55
            low        == (~kw) /\ conf < 45
        IN  /\ c \in Categories
            /\ (c = "leak") <=> has_f
            /\ (c = "noise") <=>
                   (~has_f /\ (irrelevant \/ (~has_v /\ low)))
            /\ (c = "vulnerability") <=> (~has_f /\ has_v /\ ~irrelevant)
            /\ (c = "attack_chatter") <=>
                   (~has_f /\ ~has_v /\ ~low /\ ~irrelevant
                      /\ inp.intent.label \in {"planning", "claim"})
            /\ (c = "discussion") <=>
                   (~has_f /\ ~has_v /\ ~low /\ ~irrelevant
                      /\ inp.intent.label \notin {"planning", "claim"})

\* Vulnerability features were supplied and the final override made the
\* alert noise all the same.
C8_Witness ==
    /\ apc = "built"
    /\ inp.vuln_features # None
    /\ inp.findings = <<>>
    /\ alert[1].category = "noise"

\* C9: a noise alert carries the scorer's reasons behind one "classified as
\* noise" reason and the scorer's score capped at 3.0; any other alert
\* carries the scorer's score and reasons as they are.
C9_NoiseFrame ==
    apc = "built" =>
        LET scored  == Scored(inp)
            reasons == alert[1].score_reasons
            marks   == {i \in 1..Len(reasons) : reasons[i] = NoiseReason}
        IN  IF alert[1].category = "noise"
               THEN /\ Len(reasons) = Len(scored.reasons) + 1
                    /\ reasons[1] = NoiseReason
                    /\ Tail(reasons) = scored.reasons
                    /\ marks = {1}
                    /\ alert[1].score = Min2(scored.score, 3000)
               ELSE /\ reasons = scored.reasons
                    /\ marks = {}
                    /\ alert[1].score = scored.score

\* A noise alert whose scorer's score was above 3.0, with several reasons.
C9_Witness ==
    /\ apc = "built"
    /\ alert[1].category = "noise"
    /\ Scored(inp).score > 3000
    /\ Len(Scored(inp).reasons) >= 4
    /\ alert[1].score = 3000

\* The leak signal as the claim words it: the weight of the first finding of
\* greatest confidence (default for a type the table does not list) plus 25
\* times its confidence, in thousandths of a point; 0 without findings.
ExpectedLeak(fs, default) ==
    IF fs = <<>> THEN 0
    ELSE LET top == CHOOSE i \in 1..Len(fs) :
                       /\ \A j \in 1..Len(fs) : fs[j].confidence <= fs[i].confidence
                       /\ \A j \in 1..(i-1) : fs[j].confidence # fs[i].confidence
             w   == IF fs[top].type \in DOMAIN SEVERITY_WEIGHTS
                       THEN SEVERITY_WEIGHTS[fs[top].type] ELSE default
         IN  1000 * w + 250 * fs[top].confidence

\* What the alert's score owes to its findings: the score less the score of
\* the same input without findings, when neither end of the clamp is hit.
LeakSignalIs(default) ==
    apc = "built" =>
        LET without == Scored([inp EXCEPT !.findings = <<>>]).score
            reasons == alert[1].score_reasons
            leaks   == {i \in 1..Len(reasons) :
                            reasons[i].kind \in {"Leak signal", "Evidence confidence"}}
        IN  /\ inp.findings = <<>> => leaks = {}
            /\ inp.findings # <<>> => leaks = {1, 2}
            /\ (inp.findings # <<>> /\ alert[1].score < 100000 /\ without > 0)
                  => alert[1].score - without = ExpectedLeak(inp.findings, default)

-----------------------------------------------------------------------------
(* Properties of the score formula, checked under SpecScore *)

\* The weights as the specification lists them.
StatedIntentWeight(l) ==
    CASE l = "planning"   -> 14
      [] l = "claim"      -> 12
      [] l = "leak"       -> 14
      [] l = "discussion" -> 6
      [] OTHER            -> 0

StatedSectorWeight(s) ==
    CASE s = "power_grid"            -> 22
      [] s \in {"telecom", "banking", "upi"} -> 20
      [] s \in {"airport", "ports"}  -> 16
      [] s \in {"railways", "oil"}   -> 15
      [] OTHER                       -> 8

\* The parts of the stated sum, in thousandths of a point, for the run in
\* progress and the sector the alert reports.
StatedIntentPart == StatedIntentWeight(inp.intent.label) * inp.intent.confidence * 10

StatedSectorPart ==
    StatedSectorWeight(alert[1].sector) * alert[1].sectors[1].confidence * 10

StatedVulnPart ==
    IF alert[1].vuln_risk # None
       THEN Min2(30000, 300 * alert[1].vuln_risk[1].score) ELSE 0

StatedKeywordPart ==
    (IF inp.attack_hits >= 1 THEN 6000 ELSE 0)
    + (IF inp.attack_hits >= 2 THEN Min2(12000, 4000 * inp.attack_hits) ELSE 0)

StatedCvePart ==
    IF inp.iocs.cves # <<>>
       THEN Min2(18000, 180 * MaxOfSet({inp.cvss[i] : i \in 1..Len(inp.cvss)}))
       ELSE 0

StatedIocPart ==
    LET total == Len(inp.iocs.ips) + Len(inp.iocs.domains) + Len(inp.iocs.emails)
    IN  IF total >= 2 THEN Min2(10000, 3000 * total) ELSE 0

StatedSum ==
    StatedIntentPart + StatedSectorPart + StatedVulnPart + StatedKeywordPart
    + StatedCvePart + StatedIocPart

\* C11: without findings the scorer's score is the stated sum of the intent,
\* sector, vulnerability, keyword, CVE and indicator parts, clamped to
\* [0, 100]; the alert carries it, capped at 3.0 when the alert is noise.
C11_ScoreFormula ==
    (apc = "built" /\ inp.findings = <<>>) =>
        LET expected == Max2(0, Min2(100000, StatedSum))
        IN  /\ Scored(inp).score = expected
            /\ alert[1].score = IF alert[1].category = "noise"
                                   THEN Min2(3000, expected) ELSE expected

\* No findings, every other part applied, and a sum the clamp left alone.
C11_Witness ==
    /\ apc = "built"
    /\ inp.findings = <<>>
    /\ alert[1].category # "noise"
    /\ StatedIntentPart > 0
    /\ StatedSectorPart > 0
    /\ StatedVulnPart > 0
    /\ inp.attack_hits >= 2
    /\ StatedCvePart > 0
    /\ StatedIocPart > 0
    /\ StatedSum < 100000
    /\ alert[1].score = StatedSum

\* The positions of the reasons of one kind in a list of reasons.
ReasonsOfKind(rs, kind) == {i \in 1..Len(rs) : rs[i].kind = kind}

\* C12: without vulnerability features the alert has no vuln_risk, no
\* "Vulnerability risk" reason, and a score that does not depend on what the
\* vulnerability model would answer; with features, even ones with no
\* fields, the alert carries vuln_risk, exactly one "Vulnerability risk"
\* reason showing min(30, score/100 x 30), and the scorer's sum holds that
\* amount.
C12_VulnRiskIffFeatures ==
    apc = "built" =>
        LET rs == alert[1].score_reasons
            vr == ReasonsOfKind(rs, "Vulnerability risk")
        IN  IF inp.vuln_features = None
               THEN /\ alert[1].vuln_risk = None
                    /\ vr = {}
                    /\ \A p \in {"none", "ok", "error"} : \A q \in {-20, 0, 150} :
                          build_alert([inp EXCEPT !.vuln_pipe = p, !.vr_pred = q]).score
                              = alert[1].score
               ELSE /\ alert[1].vuln_risk # None
                    /\ alert[1].vuln_risk[1].score =
                          (IF inp.vuln_pipe = "ok" THEN inp.vr_pred ELSE 0)
                    /\ Cardinality(vr) = 1
                    /\ LET part    == Min2(30000, 300 * alert[1].vuln_risk[1].score)
                           with    == Scored(inp).score
                           without == Scored([inp EXCEPT !.vuln_features = None]).score
                       IN  /\ \A i \in vr : rs[i].shown = Fmt1(part)
                           /\ (with > 0 /\ with < 100000
                                 /\ without > 0 /\ without < 100000)
                                 => with - without = part

\* Features with no field were supplied, the model failed on them, and the
\* alert carries the vuln_risk and its reason all the same.
C12_Witness ==
    /\ apc = "built"
    /\ inp.vuln_features = Some("empty")
    /\ alert[1].vuln_risk # None
    /\ alert[1].vuln_risk[1].method = "error"
    /\ ReasonsOfKind(alert[1].score_reasons, "Vulnerability risk") # {}
    /\ alert[1].category = "vulnerability"

\* The kinds of reason in the order the scorer is said to apply them.
StatedReasonOrder ==
    << "Leak signal", "Evidence confidence", "Intent", "Sector impact",
       "Vulnerability risk", "Security keywords present",
       "Attack keyword density", "CVE detected", "IOCs present" >>

\* Is the contribution of a kind applied in the run in progress?
StatedApplied(kind) ==
    CASE kind \in {"Leak signal", "Evidence confidence"} -> inp.findings # <<>>
      [] kind \in {"Intent", "Sector impact"}            -> TRUE
      [] kind = "Vulnerability risk"        -> inp.vuln_features # None
      [] kind = "Security keywords present" -> inp.attack_hits >= 1
      [] kind = "Attack keyword density"    -> inp.attack_hits >= 2
      [] kind = "CVE detected"              -> inp.iocs.cves # <<>>
      [] kind = "IOCs present"              ->
            Len(inp.iocs.ips) + Len(inp.iocs.domains) + Len(inp.iocs.emails) >= 2

\* The reasons the scorer returned: those of the alert, less the noise mark
\* build_alert puts in front of them.
ScorerReasons ==
    IF alert[1].category = "noise"
       THEN Tail(alert[1].score_reasons) ELSE alert[1].score_reasons

\* C13: the scorer's reasons hold exactly one entry for each applied
\* contribution and none for any other, in the order leak signal, evidence
\* confidence, intent, sector impact, vulnerability risk, security keywords,
\* attack keyword density, CVE, indicators; intent and sector are always there.
C13_ReasonsInOrder ==
    apc = "built" =>
        LET rs  == ScorerReasons
            pos == [k \in 1..Len(StatedReasonOrder) |->
                       ReasonsOfKind(rs, StatedReasonOrder[k])]
        IN  /\ \A i \in 1..Len(rs) :
                  \E k \in 1..Len(StatedReasonOrder) : rs[i].kind = StatedReasonOrder[k]
            /\ \A k \in 1..Len(StatedReasonOrder) :
                  Cardinality(pos[k]) =
                      (IF StatedApplied(StatedReasonOrder[k]) THEN 1 ELSE 0)
            /\ \A k1 \in 1..Len(StatedReasonOrder) :
                  \A k2 \in 1..Len(StatedReasonOrder) :
                     k1 < k2 => \A i \in pos[k1] : \A j \in pos[k2] : i < j
            /\ Len(rs) = Len(Scored(inp).reasons)

\* A run in which all nine contributions were applied.
C13_Witness ==
    /\ apc = "built"
    /\ alert[1].category = "leak"
    /\ Len(alert[1].score_reasons) = 9
    /\ alert[1].score_reasons[3].kind = "Intent"
    /\ alert[1].score_reasons[9].kind = "IOCs present"

-----------------------------------------------------------------------------
(* Properties of the sector override, checked under SpecOverride *)

\* The sectors with the highest number of hits, when that number is at least 1.
LeadingSectors ==
    LET top == MaxOfSet({inp.sector_hits[i] : i \in 1..Len(SectorHintOrder)})
    IN  IF top >= 1
           THEN {SectorHintOrder[i] : i \in {j \in 1..Len(SectorHintOrder) :
                                                inp.sector_hits[j] = top}}
           ELSE {}

\* C14: the alert's sector differs from the classifier's only when a single
\* sector leads the hit counts with at least 1 hit, it is then that sector
\* and the confidence is max(classifier confidence, 0.75); when two or more
\* sectors share the highest hit count the classifier's sector and
\* confidence are kept.
C14_OverrideOnlyOnStrictLead ==
    apc = "built" =>
        LET sector0 == inp.sectors[1]
            lead    == LeadingSectors
            now     == alert[1].sectors[1]
        IN  /\ alert[1].sector = now.label
            /\ now.label # sector0.label =>
                  /\ lead = {now.label}
                  /\ now.confidence = Max2(sector0.confidence, 75)
            /\ (Cardinality(lead) = 1 /\ lead # {sector0.label}) =>
                  /\ lead = {now.label}
                  /\ now.confidence = Max2(sector0.confidence, 75)
            /\ Cardinality(lead) # 1 => now = sector0

-----------------------------------------------------------------------------
(* Properties of the classifier interface, checked under SpecClassify *)

\* The configured label list pairs off with a row of numbers.
LabelsPair(w, row) == w.labels # <<>> /\ Len(row) = Len(w.labels)

\* pairs is the list of (labels[k], row[k]) by descending probability.
IsRankingOf(pairs, labels, row) ==
    /\ Len(pairs) = Len(labels)
    /\ \A k \in 1..Len(labels) :
          \E i \in 1..Len(pairs) : pairs[i] = [label |-> labels[k], p |-> row[k]]
    /\ \A i \in 1..Len(pairs) : \A j \in 1..Len(pairs) :
          i < j => pairs[i].p >= pairs[j].p

\* The sigmoid of each score, divided by the sum of the sigmoids.
StatedPseudoProbs(scores) ==
    LET total == SumSeq([i \in 1..Len(scores) |-> _sigmoid(scores[i])])
    IN  [i \in 1..Len(scores) |-> (_sigmoid(scores[i]) * 1000) \div total]

\* C15: a model with probabilities has them ranked under the configured
\* labels; a model without probabilities but with decision scores has the
\* normalised sigmoids of its scores ranked; a model with neither gives its
\* predicted label at 0.55, alone in the ranked list; in the first two cases
\* the label and confidence returned are the head of the ranked list.
C15_FallbackOrder ==
    cpc = "done" =>
        LET w == wrap[1]
            r == prediction[1].single
        IN  /\ (w.has_proba /\ w.proba.ok /\ LabelsPair(w, w.proba.v)) =>
                  /\ r.kind = "returned"
                  /\ IsRankingOf(r.pairs, w.labels, w.proba.v)
                  /\ r.label = r.pairs[1].label
                  /\ r.confidence = r.pairs[1].p
            /\ (~w.has_proba /\ w.has_df /\ w.df.ok /\ LabelsPair(w, w.df.v)) =>
                  /\ r.kind = "returned"
                  /\ IsRankingOf(r.pairs, w.labels, StatedPseudoProbs(w.df.v))
                  /\ r.label = r.pairs[1].label
                  /\ r.confidence = r.pairs[1].p
            /\ (~w.has_proba /\ ~w.has_df /\ w.predict.ok) =>
                  /\ r.kind = "returned"
                  /\ r.label = w.predict.v
                  /\ r.confidence = 550
                  /\ r.pairs = << [label |-> w.predict.v, p |-> 550] >>

\* C16: the call raises only when no stage can give a label: the model gives
\* no probabilities that pair off with the labels, no decision scores, and
\* its bare prediction fails too.
C16_FailureDegrades ==
    cpc = "done" =>
        LET w == wrap[1]
            r == prediction[1].single
        IN  r.kind = "raised" =>
               /\ ~w.predict.ok
               /\ ~(w.has_df /\ w.df.ok)
               /\ ~(w.has_proba /\ w.proba.ok /\ LabelsPair(w, w.proba.v))

\* C17: the sector result is never empty, and when a sector other than
\* "other" has a probability of 0.35 or more the first sector returned is
\* not "other".
C17_SectorThreshold ==
    cpc = "done" =>
        LET all == prediction[1].single
            top == prediction[1].sectors
        IN  top.kind = "returned" =>
               /\ top.pairs # <<>>
               /\ (\E i \in 1..Len(all.pairs) :
                      all.pairs[i].label # "other" /\ all.pairs[i].p >= 350)
                     => top.pairs[1].label # "other"

-----------------------------------------------------------------------------
(* Properties of the leak detector, checked under SpecLeak *)

\* The value of the match in progress: what the detector measures and masks.
SecretValue == Slice(secret[1].text, secret[1].vstart, secret[1].end)

\* The base confidences as the specification lists them.
StatedBase(ftype) ==
    CASE ftype = "PRIVATE_KEY_BLOCK" -> 95
      [] ftype \in {"AWS_ACCESS_KEY_ID", "GITHUB_TOKEN"} -> 85
      [] ftype = "CONNECTION_STRING" -> 80
      [] ftype = "AUTH_HEADER" -> 75
      [] ftype = "JWT" -> 70
      [] ftype = "PASSWORD_ASSIGNMENT" -> 65

\* A credential keyword, in any case, lies between 40 characters before the
\* match and 40 characters after it.
KeywordNear ==
    LET m == secret[1]
    IN  \E k \in ContextKeywords :
           \E i \in 0..(Len(m.text) - Len(k)) :
              /\ i >= m.start - 40
              /\ i + Len(k) <= m.end + 40
              /\ lower(Slice(m.text, i, i + Len(k))) = k

\* C18: a finding's confidence is its type's base, plus 0.10 for a keyword
\* within 40 characters of the match, plus 0.10 for a value of 12 characters
\* or more with entropy of 3.5 or more, less 0.10 for such a value with
\* entropy below 2.8, the whole clamped to [0, 1].
C18_LeakConfidence ==
    dpc = "done" =>
        LET ent  == shannon_entropy(SecretValue)
            long == Len(SecretValue) >= 12
            sum  == StatedBase(secret[1].ftype)
                    + (IF KeywordNear THEN 10 ELSE 0)
                    + (IF long /\ ent >= 3500000 THEN 10 ELSE 0)
                    - (IF long /\ ent < 2800000 THEN 10 ELSE 0)
        IN  /\ detected[1].confidence = Max2(0, Min2(100, sum))
            /\ detected[1].confidence >= 0
            /\ detected[1].confidence <= 100

\* A key whose only keyword starts exactly 40 characters before it, with a
\* long value of high entropy: both additions apply and the clamp cuts.
C18_Witness ==
    /\ dpc = "done"
    /\ secret[1].start = 40
    /\ KeywordNear
    /\ Len(SecretValue) >= 12
    /\ shannon_entropy(SecretValue) >= 3500000
    /\ StatedBase(secret[1].ftype) = 85
    /\ detected[1].confidence = 100

\* The masked value of the match in progress is the long form (first 4,
\* ellipsis, last 4) for a value of at least n characters, and the short form
\* (first, ellipsis, last) for a shorter one.
MaskIsLongFrom(n) ==
    dpc = "done" =>
        LET v == SecretValue
            k == Len(v)
        IN  detected[1].masked_value =
               IF k >= n
                  THEN << v[1], v[2], v[3], v[4], Ellipsis,
                          v[k - 3], v[k - 2], v[k - 1], v[k] >>
                  ELSE << v[1], Ellipsis, v[k] >>

\* C19 as amended: the long form is for values of 11 characters or more; a
\* value of 10 characters or fewer gets only its first and last character.
C19_MaskLongFrom11 == MaskIsLongFrom(11)

\* C19 as claimed: the long form for every value of 10 characters or more.
C19_MaskLongFrom10 == MaskIsLongFrom(10)

\* A value of exactly 10 characters was masked to its first and last.
C19_Witness ==
    /\ dpc = "done"
    /\ Len(SecretValue) = 10
    /\ Len(detected[1].masked_value) = 3
    /\ detected[1].masked_value[2] = Ellipsis

-----------------------------------------------------------------------------
(* Properties of the whole leak detector, checked under SpecScan *)

\* The findings of all the matches of the text in progress, before any is
\* dropped, and the matches whose key no earlier match has.
AllFindings == [i \in 1..Len(secret[1].matches) |-> FindingOf(secret[1].matches[i])]

FirstOfKey ==
    { i \in 1..Len(AllFindings) :
        \A j \in 1..(i - 1) : FindingKey(AllFindings[j]) # FindingKey(AllFindings[i]) }

\* No two findings returned have the same key.
KeysDistinct ==
    \A a, b \in 1..Len(detected[1]) :
        a # b => FindingKey(detected[1][a]) # FindingKey(detected[1][b])

\* The findings returned are those of the first match of each key, in the
\* order of the matches.
KeepsFirstInOrder ==
    /\ Len(detected[1]) = Cardinality(FirstOfKey)
    /\ \A k \in 1..Len(detected[1]) :
          detected[1][k] =
             AllFindings[CHOOSE i \in FirstOfKey :
                            Cardinality({j \in FirstOfKey : j < i}) = k - 1]

\* Two matches of the same value whose windows of 40 characters either side
\* overlap give one finding for that value.
OneFindingForOverlapping ==
    LET ms == secret[1].matches
        value(m) == Slice(m.text, m.vstart, m.end)
    IN  \A a, b \in 1..Len(ms) :
           ( /\ a # b
             /\ value(ms[a]) = value(ms[b])
             /\ ms[a].start - 40 < ms[b].end + 40
             /\ ms[b].start - 40 < ms[a].end + 40 )
           => Cardinality({k \in 1..Len(detected[1]) :
                  detected[1][k].masked_value = mask_secret(value(ms[a]))}) = 1

\* C21: leak_detector returns no two findings with the same (type, masked
\* value, first 60 characters of evidence), keeps the first match of each
\* key in order, and gives exactly one finding for a secret detected twice
\* in overlapping windows.
C21_FindingsDeduplicated ==
    dpc = "scanned" =>
        /\ KeysDistinct
        /\ KeepsFirstInOrder
        /\ OneFindingForOverlapping

-----------------------------------------------------------------------------
(* Properties of the merged entities, checked under SpecExtract *)

\* The indicators of the run in progress as entities.
IndicatorEntities ==
    { [kind |-> "ip", value |-> inp.iocs.ips[i]] : i \in 1..Len(inp.iocs.ips) }
    \cup { [kind |-> "domain", value |-> inp.iocs.domains[i]] : i \in 1..Len(inp.iocs.domains) }
    \cup { [kind |-> "email", value |-> inp.iocs.emails[i]] : i \in 1..Len(inp.iocs.emails) }
    \cup { [kind |-> "cve", value |-> inp.iocs.cves[i]] : i \in 1..Len(inp.iocs.cves) }

\* C22: the entities of an alert are the generic extractor's entities, all
\* kept and first, then the indicators it had not found, and no (kind, value)
\* occurs twice.
C22_EntitiesMergedOnce ==
    apc = "built" =>
        LET es == alert[1].entities
        IN  /\ \A a, b \in 1..Len(es) : a # b => es[a] # es[b]
            /\ Len(es) >= Len(inp.entities)
            /\ SubSeq(es, 1, Len(inp.entities)) = inp.entities
            /\ {es[i] : i \in 1..Len(es)} =
                  {inp.entities[i] : i \in 1..Len(inp.entities)} \cup IndicatorEntities

\* A mailbox found by both extractors and a CVE id found by one: the alert
\* has the mailbox once and the CVE id after the generic entities.
C22_Witness ==
    /\ apc = "built"
    /\ \E i \in 1..Len(inp.entities) :
          /\ inp.entities[i].kind = "email"
          /\ inp.entities[i] \in IndicatorEntities
    /\ Len(alert[1].entities) > Len(inp.entities)
    /\ alert[1].entities[Len(alert[1].entities)].kind = "cve"

\* C23: no alert has a domain entity whose value ends in an excluded file
\* extension, and the indicator count of the score takes the addresses, the
\* mailboxes and only the domains that are not file names.
C23_NoFileNameDomains ==
    apc = "built" =>
        LET es    == alert[1].entities
            rs    == alert[1].score_reasons
            hosts == {i \in 1..Len(inp.iocs.domains) : ~FileLike(inp.iocs.domains[i])}
            n     == Len(inp.iocs.ips) + Len(inp.iocs.emails) + Cardinality(hosts)
        IN  /\ \A i \in 1..Len(es) : es[i].kind = "domain" => ~FileLike(es[i].value)
            /\ \A i \in ReasonsOfKind(rs, "IOCs present") : rs[i].detail = n
            /\ n < 2 => ReasonsOfKind(rs, "IOCs present") = {}

-----------------------------------------------------------------------------
(* Properties of a repeated pipeline run, checked under SpecTwice *)

\* C24: two runs of build_alert on the same text and features give the same
\* category, score and score reasons, and the same severity, between 0 and
\* 10, for each CVE id.
C24_RunsAgree ==
    apc = "twice" =>
        /\ alert[1].category = alert[2].category
        /\ alert[1].score = alert[2].score
        /\ alert[1].score_reasons = alert[2].score_reasons
        /\ alert[1].cve_enriched = alert[2].cve_enriched
        /\ \A a \in {alert[1], alert[2]} : \A i \in 1..Len(a.cve_enriched) :
              a.cve_enriched[i].cvss >= 0 /\ a.cve_enriched[i].cvss <= 100

-----------------------------------------------------------------------------
(* Properties of the vulnerability risk without a model, checked under SpecScore *)

\* C25: with vulnerability features and no vulnerability model loaded, the
\* alert is built and carries a vuln_risk of method "heuristic" whose score
\* comes from the features: it is not 0 for every feature set.
C25_HeuristicWithoutModel ==
    (apc = "built" /\ inp.vuln_features # None /\ inp.vuln_pipe = "none") =>
        /\ alert # None
        /\ alert[1].vuln_risk # None
        /\ alert[1].vuln_risk[1].method = "heuristic"
        /\ \E f \in {"vf", "empty"} :
              build_alert([inp EXCEPT !.vuln_features = Some(f)]).vuln_risk[1].score > 0

-----------------------------------------------------------------------------
(* Properties of the loaded models, checked under SpecServe *)

\* The bundle is loaded at most once in the life of the process.
LoadedAtMostOnce == loads <= 1

\* A missing bundle makes a call fail before any post is committed.
MissingFailsBeforeCommit == spc = "load failed" => stored = 0

\* No step changes the label list of a models object in use.
LabelsReadOnly ==
    (models # None /\ models' # None) => models'[1].labels = models[1].labels

\* C26: the classifier artifacts are loaded at most once per process, a
\* missing artifact fails before any post is persisted, and no invocation
\* changes the label list of the loaded model.
C26_LoadedOnceReadOnly ==
    /\ [](LoadedAtMostOnce)
    /\ [](MissingFailsBeforeCommit)
    /\ [][LabelsReadOnly]_vars

-----------------------------------------------------------------------------
(* Properties of the ingestion statistics, checked under SpecRun *)

\* C27: the statistics a run reports are the numbers of Post rows and of
\* Alert rows the run created; an item whose post was already stored, by this
\* run or an earlier one, is not counted.
C27_StatsCountNewRows ==
    rpc = "done" =>
        /\ inserted_posts = Cardinality(posts) - base.posts
        /\ created_alerts = Cardinality(alerts) - base.alerts

-----------------------------------------------------------------------------
(* Properties of the fetch with retries, checked under SpecHttp *)

\* the positions of the requests among the events
GetAt == {k \in 1..Len(events) : events[k].ev = "get"}

\* the last event, which is a request whenever the call has ended
LastGet == events[Len(events)].got

\* at most retries + 1 requests, and a request that succeeded is the last
\* event: the call ended there with the body of that response
FirstSuccessEnds ==
    /\ Cardinality(GetAt) <= retries + 1
    /\ \A k \in GetAt :
        Failure(events[k].got) = None =>
            /\ k = Len(events)
            /\ hpc = "done"
            /\ outcome = Some([kind |-> "returned", text |-> events[k].got.text, error |-> None])

\* a sleep comes right after a failed request, another request follows it,
\* and the n-th sleep lasts 1.0 + (n - 1) * 1.5 seconds
SleepsOnlyBetween ==
    \A k \in (1..Len(events)) \ GetAt :
        /\ k > 1
        /\ (k - 1) \in GetAt
        /\ Failure(events[k - 1].got) # None
        /\ Cardinality({j \in GetAt : j < k}) <= retries
        /\ events[k].secs = Backoff(Cardinality({j \in GetAt : j < k}) - 1)
        /\ hpc = "done" => (k + 1) \in GetAt

\* the call ends with a body or with the error of the last of retries + 1
\* failed requests
EndsWithBodyOrLastError ==
    hpc = "done" =>
        /\ outcome # None
        /\ Len(events) \in GetAt
        /\ \/ /\ outcome[1].kind = "returned"
              /\ Failure(LastGet) = None
              /\ outcome[1].text = LastGet.text
           \/ /\ outcome[1].kind = "raised"
              /\ Cardinality(GetAt) = retries + 1
              /\ \A k \in GetAt : Failure(events[k].got) # None
              /\ outcome[1].error = Failure(LastGet)

\* C28: _http_get makes at most retries + 1 requests, returns the body of the
\* first one that succeeds, sleeps only between two requests, raises the error
\* of the last request when all fail, and ends in no other way.
C28_FetchRetries ==
    /\ FirstSuccessEnds
    /\ SleepsOnlyBetween
    /\ EndsWithBodyOrLastError

\* C28 witness: three requests failed with two sleeps between them and the
\* call raised the error of the third, which is not the error of the first.
C28_Witness ==
    /\ hpc = "done"
    /\ retries = 2
    /\ Cardinality(GetAt) = 3
    /\ Len(events) = 5
    /\ outcome[1].kind = "raised"
    /\ outcome[1].error = Failure(LastGet)
    /\ Failure(events[1].got) # Failure(LastGet)

-----------------------------------------------------------------------------
(* Properties of the alert stream, checked under SpecStream *)

\* the ids sent are strictly increasing, so none is sent twice, and the
\* cursor is the last id sent
EmittedIncreasing ==
    /\ \A j \in 1..Len(emitted) : \A k \in 1..Len(emitted) :
        j < k => emitted[j] < emitted[k]
    /\ \A k \in 1..Len(emitted) : emitted[k] <= last_id
    /\ emitted # <<>> => last_id = emitted[Len(emitted)]

\* only committed alerts are sent
EmittedAreVisible == \A k \in 1..Len(emitted) : emitted[k] \in visible

\* the cursor never decreases
CursorGrows == last_id' >= last_id

\* the alert with id k was sent on the connection
Sent(k) == \E j \in 1..Len(emitted) : emitted[j] = k

\* every alert committed while the connection is open is sent in the end
CommittedIsSent ==
    \A k \in 1..MaxAlerts : (stpc = "open" /\ k \in visible) ~> Sent(k)

\* C29: on one connection the ids sent are strictly increasing with no id
\* sent twice, the cursor never decreases, and every alert committed while
\* the connection is open is sent in the end, also one that became visible
\* after an alert with a higher id was sent.
C29_StreamEmitsAll ==
    /\ [](EmittedIncreasing /\ EmittedAreVisible)
    /\ [][CursorGrows]_vars
    /\ CommittedIsSent

-----------------------------------------------------------------------------
(* Properties of the dedup key, checked under SpecHash *)

\* source, url and trimmed text of a call
Triple(c) == <<c.source, c.url, strip(c.text)>>

\* C30: two ingests whose (source, url, trimmed text) triples differ get
\* different dedup keys, also when a source or a url holds "||".
C30_KeySeparatesTriples ==
    kpc = "hashed" =>
        (Triple(left_call) # Triple(right_call) => hashes[1][1] # hashes[1][2])

=============================================================================
